---------------------------- MODULE Spec2Model ----------------------------
(***************************************************************************)
(* A model of the SuperNova task orchestration engine: the Delegator       *)
(* (SupervisorAgent), the Orchestrator (AgentWorkflow.run and its          *)
(* per-specialist handlers), the Trace Recorder (ThinkingProcess) and the  *)
(* Sandbox (filesystem and executor).                                      *)
(*                                                                         *)
(* Texts are TLA+ strings; TLC evaluates Len, \o and SubSeq on them, so    *)
(* the substring searches, lower-casing and label parsing of the source    *)
(* are computed character by character, as the Python does.                *)
(***************************************************************************)
EXTENDS Integers, Sequences, FiniteSets, TLC

VARIABLES
    \* ---- Delegator harness (SupervisorAgent.delegate_task on its own)
    dPc,            \* "ready" | "delegated"
    dFrags,         \* the fragments whose concatenation is the LLM's answer
    dLlmFails,      \* whether the LanguageModel call raises
    dDecision,      \* the delegation decision and the handler dispatched
    \* ---- Trace Recorder harness (one ThinkingProcess, any call sequence)
    tThinking,      \* the ThinkingProcess object
    tClock,         \* the reading of time.time()
    \* ---- Orchestrator: one AgentWorkflow instance and its caller
    pc,             \* "idle" | "returned" | "raised": how the last run() ended
    user_input,     \* the argument of the last run()
    self_thinking_mode, \* self.thinking_mode
    messages,       \* self.messages
    tasks,          \* self.tasks
    current_task,   \* self.current_task
    thinking,       \* self.thinking
    returned,       \* what the last run() returned to its caller, if it did
    escaped,        \* the exception the last run() let escape, if it did
    call_log,       \* the dependency calls of the last run(), in order
    clock,          \* the reading of time.time()
    started,        \* the reading of time.time() when the last run() began
    runs,           \* the number of run() calls made in this process
    in_mode,        \* the last run() as each thinking mode would have made it
    \* ---- Sandbox harness (one Sandbox object, any call sequence)
    sSandbox,       \* the Sandbox object and the disk under it
    sLast,          \* the last call: its arguments, what the OS did, its outcome
    sOps,           \* the number of calls made
    \* ---- FileOperations harness (one FileOperations object and its disk)
    fFiles,         \* the FileOperations object and the disk under it
    fLast,          \* the last call: its arguments, the disk before it, its outcome
    fOps,           \* the number of calls made
    \* ---- Two Orchestrators in one process, each with its SandboxAgent
    iSandbox,       \* the Sandbox object their SandboxAgents call
    iOwner,         \* for each file on the disk, the Orchestrator that created it
    iLast,          \* the last call: who made it, the disk and owners before it
    iOps,           \* the number of calls made
    \* ---- TerminalCapture around a run
    cEntered,       \* whether sys.stdout and sys.stderr are the CaptureStreams
    cStreams,       \* per stream: the StringIO of the capture, the real stream
    cThinking,      \* the ThinkingProcess the callback records into
    cClock,         \* the reading of time.time()
    cLast,          \* the last write: the stream and the text
    cOps,           \* the number of writes made
    \* ---- One run(), call by call
    pPhase,         \* "idle" | "delegating" | "executing" | "completed" | "raised"
    pPending,       \* the dependency calls the run has yet to make, in order
    pMade,          \* the dependency calls that have returned, in order
    pOutcome,       \* how the handler ends: whether it raises, and its result
    \* ---- Two runs in two threads of one process
    gSys,           \* sys.stdout and sys.stderr: the stream each name is bound to
    gRun,           \* per thread: where its run is, its TerminalCapture's saved
                    \* streams and what its callback recorded
    gOps,           \* the number of writes made
    \* ---- PythonREPL on its own
    rLast,          \* the last call of PythonREPL.execute: the code and what it did
    rOps            \* the number of calls made

dvars == <<dPc, dFrags, dLlmFails, dDecision>>
tvars == <<tThinking, tClock>>
wvars == <<pc, user_input, self_thinking_mode, messages, tasks, current_task, thinking,
           returned, escaped, call_log, clock, started, runs, in_mode>>
svars == <<sSandbox, sLast, sOps>>
fvars == <<fFiles, fLast, fOps>>
ivars == <<iSandbox, iOwner, iLast, iOps>>
cvars == <<cEntered, cStreams, cThinking, cClock, cLast, cOps>>
pvars == <<pPhase, pPending, pMade, pOutcome>>
gvars == <<gSys, gRun, gOps>>
rvars == <<rLast, rOps>>

vars == <<dvars, tvars, wvars, svars, fvars, ivars, cvars, pvars, gvars, rvars>>

--------------------------------------------------------------------------
(* A Python assignment, name = value, followed by the statements that use  *)
(* the name: Rest is those statements, as an operator of the name.         *)

Assign(value, Rest(_)) == Rest(value)

--------------------------------------------------------------------------
(* Text primitives (Python str methods)                                    *)

\* str.lower() on one character
LowerChar(c) ==
    CASE c = "A" -> "a" [] c = "B" -> "b" [] c = "C" -> "c" [] c = "D" -> "d"
      [] c = "E" -> "e" [] c = "F" -> "f" [] c = "G" -> "g" [] c = "H" -> "h"
      [] c = "I" -> "i" [] c = "J" -> "j" [] c = "K" -> "k" [] c = "L" -> "l"
      [] c = "M" -> "m" [] c = "N" -> "n" [] c = "O" -> "o" [] c = "P" -> "p"
      [] c = "Q" -> "q" [] c = "R" -> "r" [] c = "S" -> "s" [] c = "T" -> "t"
      [] c = "U" -> "u" [] c = "V" -> "v" [] c = "W" -> "w" [] c = "X" -> "x"
      [] c = "Y" -> "y" [] c = "Z" -> "z" [] OTHER -> c

\* str.lower(): character by character, the text halved at each step
RECURSIVE Lower(_)
Lower(s) ==
    IF Len(s) <= 1 THEN LowerChar(s)
    ELSE Lower(SubSeq(s, 1, Len(s) \div 2)) \o Lower(SubSeq(s, Len(s) \div 2 + 1, Len(s)))

\* the Python expression `k in s` for strings
Contains(s, k) ==
    \/ Len(k) = 0
    \/ \E i \in 1..(Len(s) - Len(k) + 1) : SubSeq(s, i, i + Len(k) - 1) = k

\* str.startswith
StartsWith(s, p) == Len(p) <= Len(s) /\ SubSeq(s, 1, Len(p)) = p

\* str.endswith
EndsWith(s, p) == Len(p) <= Len(s) /\ SubSeq(s, Len(s) - Len(p) + 1, Len(s)) = p

RECURSIVE Concat(_)
Concat(fs) == IF fs = <<>> THEN "" ELSE Head(fs) \o Concat(Tail(fs))

\* str.upper() on one character
UpperChar(c) ==
    CASE c = "a" -> "A" [] c = "b" -> "B" [] c = "c" -> "C" [] c = "d" -> "D"
      [] c = "e" -> "E" [] c = "f" -> "F" [] c = "g" -> "G" [] c = "h" -> "H"
      [] c = "i" -> "I" [] c = "j" -> "J" [] c = "k" -> "K" [] c = "l" -> "L"
      [] c = "m" -> "M" [] c = "n" -> "N" [] c = "o" -> "O" [] c = "p" -> "P"
      [] c = "q" -> "Q" [] c = "r" -> "R" [] c = "s" -> "S" [] c = "t" -> "T"
      [] c = "u" -> "U" [] c = "v" -> "V" [] c = "w" -> "W" [] c = "x" -> "X"
      [] c = "y" -> "Y" [] c = "z" -> "Z" [] OTHER -> c

\* str.capitalize()
Capitalize(s) ==
    IF Len(s) = 0 THEN ""
    ELSE UpperChar(SubSeq(s, 1, 1)) \o Lower(SubSeq(s, 2, Len(s)))

\* s[i:] and s[:n] of Python, with 1-based i
From(s, i) == IF i > Len(s) THEN "" ELSE SubSeq(s, i, Len(s))
Prefix(s, n) == IF n >= Len(s) THEN s ELSE IF n <= 0 THEN "" ELSE SubSeq(s, 1, n)

\* the characters str.strip() removes
IsSpace(c) == c \in {" ", "\n", "\t", "\r"}

RECURSIVE LStrip(_)
LStrip(s) ==
    IF Len(s) > 0 /\ IsSpace(SubSeq(s, 1, 1)) THEN LStrip(From(s, 2)) ELSE s

RECURSIVE RStrip(_)
RStrip(s) ==
    IF Len(s) > 0 /\ IsSpace(SubSeq(s, Len(s), Len(s)))
    THEN RStrip(Prefix(s, Len(s) - 1)) ELSE s

\* str.strip()
Strip(s) == LStrip(RStrip(s))

\* str.find, 1-based; 0 when k does not occur in s
Find(s, k) ==
    LET hits == { i \in 1..(Len(s) - Len(k) + 1) : SubSeq(s, i, i + Len(k) - 1) = k }
    IN IF hits = {} THEN 0 ELSE CHOOSE i \in hits : \A j \in hits : i <= j

\* str.split(sep) for a non-empty separator
RECURSIVE Split(_, _)
Split(s, sep) ==
    LET i == Find(s, sep) IN
    IF i = 0 THEN <<s>>
    ELSE <<Prefix(s, i - 1)>> \o Split(From(s, i + Len(sep)), sep)

\* str.split(sep, 1)
SplitOnce(s, sep) ==
    LET i == Find(s, sep) IN
    IF i = 0 THEN <<s>> ELSE <<Prefix(s, i - 1), From(s, i + Len(sep))>>

\* sep.join(xs)
RECURSIVE Join(_, _)
Join(xs, sep) ==
    IF xs = <<>> THEN ""
    ELSE IF Len(xs) = 1 THEN xs[1]
    ELSE xs[1] \o sep \o Join(Tail(xs), sep)

\* str.replace(old, new) for a non-empty old
RECURSIVE Replace(_, _, _)
Replace(s, old, new) ==
    LET i == Find(s, old) IN
    IF i = 0 THEN s
    ELSE Prefix(s, i - 1) \o new \o Replace(From(s, i + Len(old)), old, new)

\* max(xs, key=len): the first longest string of a non-empty sequence
Longest(xs) ==
    LET i == CHOOSE i \in 1..Len(xs) :
                 /\ \A j \in 1..Len(xs) : Len(xs[j]) <= Len(xs[i])
                 /\ \A j \in 1..(i - 1) : Len(xs[j]) < Len(xs[i])
    IN xs[i]

\* str(n) for a natural number
RECURSIVE Str(_)
Str(n) ==
    LET d == n % 10
        c == CASE d = 0 -> "0" [] d = 1 -> "1" [] d = 2 -> "2" [] d = 3 -> "3"
               [] d = 4 -> "4" [] d = 5 -> "5" [] d = 6 -> "6" [] d = 7 -> "7"
               [] d = 8 -> "8" [] OTHER -> "9"
    IN IF n < 10 THEN c ELSE Str(n \div 10) \o c

\* the last index of character c in s, 0 when absent
LastIndex(s, c) ==
    LET hits == { i \in 1..Len(s) : SubSeq(s, i, i) = c }
    IN IF hits = {} THEN 0 ELSE CHOOSE i \in hits : \A j \in hits : j <= i

--------------------------------------------------------------------------
(* BaseAgent.get_response and the Delegator                                *)

\* The text get_response substitutes when the LanguageModel call raises.
fallback_response ==
    "I'm sorry, but I encountered an error while processing your request. Please try again."

\* A LanguageModel call: it returns `text`, or raises when `fails`.
\* get_response catches the exception and returns the fallback text.
get_response_nocatch(fails, text) ==
    IF fails THEN [raised |-> TRUE, text |-> ""]
    ELSE [raised |-> FALSE, text |-> text]

get_response(fails, text) ==
    IF fails THEN [raised |-> FALSE, text |-> fallback_response]
    ELSE [raised |-> FALSE, text |-> text]

parse_specialist_coder_first(response) ==
    LET response_lower == Lower(response) IN
    IF Contains(response_lower, "coder") THEN "coder"
    ELSE IF Contains(response_lower, "researcher") THEN "researcher"
    ELSE IF \/ Contains(response_lower, "browser")
            \/ Contains(response_lower, "web")
            \/ Contains(response_lower, "website")
            \/ Contains(response_lower, "browse") THEN "browser"
    ELSE IF \/ Contains(response_lower, "file manager")
            \/ Contains(response_lower, "file_manager") THEN "file_manager"
    ELSE IF \/ Contains(response_lower, "sandbox")
            \/ Contains(response_lower, "execute")
            \/ Contains(response_lower, "command")
            \/ Contains(response_lower, "terminal")
            \/ Contains(response_lower, "shell") THEN "sandbox"
    ELSE "unknown"

\* SupervisorAgent._parse_specialist
parse_specialist(response) ==
    LET response_lower == Lower(response) IN
    IF Contains(response_lower, "researcher") THEN "researcher"
    ELSE IF Contains(response_lower, "coder") THEN "coder"
    ELSE IF \/ Contains(response_lower, "browser")
            \/ Contains(response_lower, "web")
            \/ Contains(response_lower, "website")
            \/ Contains(response_lower, "browse") THEN "browser"
    ELSE IF \/ Contains(response_lower, "file manager")
            \/ Contains(response_lower, "file_manager") THEN "file_manager"
    ELSE IF \/ Contains(response_lower, "sandbox")
            \/ Contains(response_lower, "execute")
            \/ Contains(response_lower, "command")
            \/ Contains(response_lower, "terminal")
            \/ Contains(response_lower, "shell") THEN "sandbox"
    ELSE "unknown"

\* SupervisorAgent.delegate_task: one LanguageModel call, then the parse.
delegate_task(fails, text) ==
    LET r == get_response(fails, text) IN
    IF r.raised
    THEN [raised |-> TRUE, specialist |-> "none", reasoning |-> ""]
    ELSE [raised |-> FALSE,
          specialist |-> parse_specialist(r.text),
          reasoning |-> r.text]

dispatch_no_default(specialist) ==
    IF specialist = "researcher" THEN "researcher"
    ELSE IF specialist = "coder" THEN "coder"
    ELSE IF specialist = "file_manager" THEN "file_manager"
    ELSE IF specialist = "browser" THEN "browser"
    ELSE IF specialist = "sandbox" THEN "sandbox"
    ELSE "none"

\* The dispatch chain of AgentWorkflow.run: the handler run for a specialist.
dispatch(specialist) ==
    IF specialist = "researcher" THEN "researcher"
    ELSE IF specialist = "coder" THEN "coder"
    ELSE IF specialist = "file_manager" THEN "file_manager"
    ELSE IF specialist = "browser" THEN "browser"
    ELSE IF specialist = "sandbox" THEN "sandbox"
    ELSE "supervisor"

--------------------------------------------------------------------------
(* Trace Recorder: ThinkingProcess.  The recorder is a record `th`; every  *)
(* method is an operator from the recorder (and the clock reading `now`)   *)
(* to the recorder after the call.  An absent value (Python None) is the   *)
(* empty sequence, a present one a one-element sequence.                   *)

NORMAL_THINKING == "normal"
DEEP_THINKING == "deep"
SUPER_DEEP_THINKING == "super_deep"
ThinkingModes == {NORMAL_THINKING, DEEP_THINKING, SUPER_DEEP_THINKING}

\* ThinkingProcess.__init__
new_thinking(now, thinking_mode) ==
    [steps |-> <<>>, current_step |-> <<>>, start_time |-> now,
     artifacts |-> <<>>, links |-> <<>>, files |-> <<>>, plan |-> <<>>,
     terminal_output |-> <<>>, thinking_mode |-> thinking_mode]

add_step_id_from_zero(th, now, step_type, content) ==
    LET step == [id |-> Len(th.steps), type |-> step_type, content |-> content,
                 timestamp |-> now, elapsed |-> now - th.start_time]
    IN [th EXCEPT !.steps = Append(@, step), !.current_step = <<step>>]

\* ThinkingProcess.add_step
add_step(th, now, step_type, content) ==
    LET step == [id |-> Len(th.steps) + 1, type |-> step_type, content |-> content,
                 timestamp |-> now, elapsed |-> now - th.start_time]
    IN [th EXCEPT !.steps = Append(@, step), !.current_step = <<step>>]

\* the thought recorded as given, whatever the mode
add_thinking_as_given(th, now, thought, depth) ==
    add_step(th, now, "thinking", [content |-> thought, type |-> "thought", depth |-> depth])

\* ThinkingProcess.add_thinking
add_thinking(th, now, thought, depth) ==
    LET deep == /\ depth = 0
                /\ th.thinking_mode = DEEP_THINKING
                /\ ~StartsWith(thought, "Deep Analysis:")
        super == /\ depth = 0
                 /\ ~deep
                 /\ th.thinking_mode = SUPER_DEEP_THINKING
                 /\ ~StartsWith(thought, "Super Deep Analysis:")
        enhanced_thought ==
            IF deep
            THEN thought \o "\n\nDeep Analysis: I'll analyze this further by considering multiple perspectives and potential implications."
            ELSE IF super
            THEN thought \o "\n\nSuper Deep Analysis: I'll perform an extensive analysis by considering multiple perspectives, potential implications, alternative approaches, and edge cases. I'll also evaluate the confidence level of my reasoning."
            ELSE thought
        thought_type == IF deep THEN "deep_thought"
                        ELSE IF super THEN "super_deep_thought" ELSE "thought"
    IN add_step(th, now, "thinking",
                [content |-> enhanced_thought, type |-> thought_type, depth |-> depth])

\* ThinkingProcess.add_planning
add_planning(th, now, plan) ==
    add_step([th EXCEPT !.plan = plan], now, "planning",
             [content |-> plan, type |-> "plan"])

\* ThinkingProcess.add_execution
add_execution(th, now, action, result) ==
    add_step(th, now, "execution",
             [action |-> action, result |-> result, type |-> "execution"])

\* artifacts numbered within their own collection
add_artifact_numbered_by_kind(th, now, artifact_type, content) ==
    LET artifact == [id |-> (IF artifact_type = "link" THEN Len(th.links)
                             ELSE Len(th.files)) + 1,
                     type |-> artifact_type,
                     content |-> content, timestamp |-> now,
                     step_id |-> IF th.current_step # <<>>
                                 THEN <<th.current_step[1].id>> ELSE <<>>]
    IN [th EXCEPT !.artifacts = Append(@, artifact),
                  !.links = IF artifact_type = "link" THEN Append(@, artifact) ELSE @,
                  !.files = IF artifact_type = "file" THEN Append(@, artifact) ELSE @]

\* ThinkingProcess.add_artifact
add_artifact(th, now, artifact_type, content) ==
    LET artifact == [id |-> Len(th.artifacts) + 1, type |-> artifact_type,
                     content |-> content, timestamp |-> now,
                     step_id |-> IF th.current_step # <<>>
                                 THEN <<th.current_step[1].id>> ELSE <<>>]
    IN [th EXCEPT !.artifacts = Append(@, artifact),
                  !.links = IF artifact_type = "link" THEN Append(@, artifact) ELSE @,
                  !.files = IF artifact_type = "file" THEN Append(@, artifact) ELSE @]

\* ThinkingProcess.add_link (title None is "", and falls back to the url)
add_link(th, now, url, title, description) ==
    add_artifact(th, now, "link",
                 [url |-> url, title |-> IF title = "" THEN url ELSE title,
                  description |-> description])

\* ThinkingProcess.add_file
add_file(th, now, path, content, description) ==
    add_artifact(th, now, "file",
                 [path |-> path, content |-> content, description |-> description])

RECURSIVE PerspectiveLines(_)
PerspectiveLines(ps) ==
    IF ps = <<>> THEN ""
    ELSE "**" \o Head(ps) \o "**: Considering this from a " \o Lower(Head(ps))
             \o " viewpoint...\n" \o PerspectiveLines(Tail(ps))

DefaultPerspectives ==
    <<"Logical perspective", "Creative perspective", "Critical perspective",
      "Practical perspective">>

\* ThinkingProcess.add_deep_thinking
add_deep_thinking(th, now, thought, perspectives) ==
    LET ps == IF perspectives = <<>> THEN DefaultPerspectives ELSE perspectives
    IN add_thinking(th, now,
                    "Deep Analysis: " \o thought \o "\n\n" \o PerspectiveLines(ps), 1)

RECURSIVE AnalysisLines(_)
AnalysisLines(ps) ==
    IF ps = <<>> THEN ""
    ELSE "**" \o Head(ps) \o "**: Analyzing " \o Lower(Head(ps)) \o " in depth...\n"
             \o AnalysisLines(Tail(ps))

DefaultAnalysisPoints ==
    <<"Multiple perspectives", "Potential implications", "Alternative approaches",
      "Edge cases", "Confidence assessment", "Potential challenges",
      "Success criteria">>

\* ThinkingProcess.add_super_deep_thinking
add_super_deep_thinking(th, now, thought, analysis_points) ==
    LET ps == IF analysis_points = <<>> THEN DefaultAnalysisPoints ELSE analysis_points
    IN add_thinking(th, now,
                    "Super Deep Analysis: " \o thought \o "\n\n" \o AnalysisLines(ps), 2)

\* ThinkingProcess.add_terminal_output
add_terminal_output(th, now, output) ==
    add_step([th EXCEPT !.terminal_output =
                  Append(@, [content |-> output, timestamp |-> now,
                             elapsed |-> now - th.start_time])],
             now, "terminal", [content |-> output, type |-> "terminal_output"])

start_thinking_keeps_steps(th, now, query, thinking_mode) ==
    LET reset == [th EXCEPT !.start_time = now,
                            !.artifacts = <<>>, !.links = <<>>, !.files = <<>>,
                            !.plan = <<>>, !.terminal_output = <<>>,
                            !.thinking_mode = IF thinking_mode # "" THEN thinking_mode ELSE @]
        q == add_step(reset, now, "query", [content |-> query, type |-> "user_query"])
    IN IF q.thinking_mode = DEEP_THINKING
       THEN add_thinking(q, now, "Deep Thinking Mode activated. I'll provide more detailed reasoning and analysis.", 0)
       ELSE IF q.thinking_mode = SUPER_DEEP_THINKING
       THEN add_thinking(q, now, "Super Deep Thinking Mode activated. I'll provide extremely detailed reasoning, analysis, and alternative approaches.", 0)
       ELSE q

\* ThinkingProcess.start_thinking (thinking_mode "" is None: keep the mode)
start_thinking(th, now, query, thinking_mode) ==
    LET reset == [th EXCEPT !.steps = <<>>, !.current_step = <<>>, !.start_time = now,
                            !.artifacts = <<>>, !.links = <<>>, !.files = <<>>,
                            !.plan = <<>>, !.terminal_output = <<>>,
                            !.thinking_mode = IF thinking_mode # "" THEN thinking_mode ELSE @]
        q == add_step(reset, now, "query", [content |-> query, type |-> "user_query"])
    IN IF q.thinking_mode = DEEP_THINKING
       THEN add_thinking(q, now, "Deep Thinking Mode activated. I'll provide more detailed reasoning and analysis.", 0)
       ELSE IF q.thinking_mode = SUPER_DEEP_THINKING
       THEN add_thinking(q, now, "Super Deep Thinking Mode activated. I'll provide extremely detailed reasoning, analysis, and alternative approaches.", 0)
       ELSE q

\* ThinkingProcess.get_summary
get_summary(th, now) ==
    [steps |-> th.steps, artifacts |-> th.artifacts, links |-> th.links,
     files |-> th.files, plan |-> th.plan, terminal_output |-> th.terminal_output,
     thinking_mode |-> th.thinking_mode, elapsed |-> now - th.start_time]

--------------------------------------------------------------------------
(* The calls a handler makes on the recorder, in program order.  A handler *)
(* is an operator from its inputs and the outcomes of its dependencies to  *)
(* the sequence of recorder calls it makes, the dependency calls it makes, *)
(* and its result or the exception it lets escape.                         *)

Thought(t) == [k |-> "thinking", a |-> t, b |-> "", c |-> ""]
DeepThought(t, perspectives) == [k |-> "deep", a |-> t, b |-> perspectives, c |-> ""]
SuperDeepThought(t) == [k |-> "super", a |-> t, b |-> "", c |-> ""]
Planning(plan) == [k |-> "planning", a |-> plan, b |-> "", c |-> ""]
Execution(action, result) == [k |-> "execution", a |-> action, b |-> result, c |-> ""]
LinkArtifact(url, title, description) ==
    [k |-> "link", a |-> url, b |-> title, c |-> description]
FileArtifact(path, content, description) ==
    [k |-> "file", a |-> path, b |-> content, c |-> description]
TerminalOutput(text) == [k |-> "terminal", a |-> text, b |-> "", c |-> ""]

\* one self.thinking.<method>(...) call
record_call(th, now, e) ==
    CASE e.k = "thinking" -> add_thinking(th, now, e.a, 0)
      [] e.k = "deep" -> add_deep_thinking(th, now, e.a, e.b)
      [] e.k = "super" -> add_super_deep_thinking(th, now, e.a, <<>>)
      [] e.k = "planning" -> add_planning(th, now, e.a)
      [] e.k = "execution" -> add_execution(th, now, e.a, e.b)
      [] e.k = "link" -> add_link(th, now, e.a, e.b, e.c)
      [] e.k = "file" -> add_file(th, now, e.a, e.b, e.c)
      [] OTHER -> add_terminal_output(th, now, e.a)

RECURSIVE record_calls(_, _, _)
record_calls(th, now, es) ==
    IF es = <<>> THEN th
    ELSE record_calls(record_call(th, now, Head(es)), now, Tail(es))

\* every write, blank or not, reaches the callback
capture_write_unfiltered(text) == <<TerminalOutput(Strip(text))>>

\* A write to sys.stdout while TerminalCapture is entered: CaptureStream.write
\* calls the callback for non-blank text, and run's callback records the
\* stripped text.
capture_write(text) ==
    IF Strip(text) # "" THEN <<TerminalOutput(Strip(text))>> ELSE <<>>

\* CaptureStream.write(text) on a stream whose original stream is set:
\* the new state of the stream and the calls the callback makes
CaptureStream_write(stream, text) ==
    [stream |-> [capture |-> stream.capture \o text,
                 original |-> Append(stream.original, text)],
     callback |-> capture_write(text)]

\* print(text): the text, then the line end, as two writes
capture_print(text) == capture_write(text) \o capture_write("\n")

\* The message of the exception a failing LanguageModel call raises.
LlmError == "connection refused"

\* What get_response prints when the LanguageModel call raises.
get_response_prints(ans) ==
    IF ans.fails THEN capture_print("Error getting response: " \o LlmError) ELSE <<>>

\* The text get_response returns for a LanguageModel call `ans`.
llm(ans) == get_response(ans.fails, ans.text).text

\* A dependency call in the log of a run: the operation, its argument and
\* what it gave back (a status; for write_code and debug_code, the code).
Call(op, arg, out) == [op |-> op, arg |-> arg, out |-> out]

\* The call coder.execute_code(code) in the log, with the status and the
\* error text of the execution result it gave back.
Executed(code, run) ==
    [op |-> "execute_code", arg |-> code,
     out |-> IF run.raises THEN "raised" ELSE run.status, error |-> run.error]

\* The call sandbox.execute_python(code) or sandbox.execute_command(command)
\* in the log, with the status and, if it has one, the error text of the
\* Sandbox's result.
RanInSandbox(op, arg, result) ==
    [op |-> op, arg |-> arg, out |-> result.status,
     error |-> IF "error" \in DOMAIN result THEN result.error ELSE ""]

\* self.current_task as a handler creates it: no result, no end time yet
Begun(task, specialist, now) ==
    [task |-> task, specialist |-> specialist, start_time |-> now,
     result |-> <<>>, end_time |-> <<>>]

\* the last three statements of a handler: the record gets its result and
\* end time and is appended to self.tasks
Returned(trace, calls, rec, result, end) ==
    LET done == [rec EXCEPT !.result = <<result>>, !.end_time = <<end>>] IN
    [raised |-> FALSE, exception |-> "", trace |-> trace, calls |-> calls,
     result |-> result, current_task |-> <<done>>, appended |-> <<done>>]

\* a handler that returns without touching self.tasks
ReturnedUnrecorded(trace, calls, rec, result) ==
    [raised |-> FALSE, exception |-> "", trace |-> trace, calls |-> calls,
     result |-> result, current_task |-> <<rec>>, appended |-> <<>>]

\* an exception leaves the handler
Raised(trace, calls, rec, exception) ==
    [raised |-> TRUE, exception |-> exception, trace |-> trace, calls |-> calls,
     result |-> "", current_task |-> <<rec>>, appended |-> <<>>]

--------------------------------------------------------------------------
(* Markdown code fences.  A TLA+ string cannot hold the backquote, so the  *)
(* model writes every backquote of the source's texts as a tilde.          *)

FENCE == "~~~"

--------------------------------------------------------------------------
(* ResearcherAgent and AgentWorkflow._process_researcher_task              *)

\* ResearcherAgent.search: web_search.search, then one LanguageModel call
search(query, found, ans) ==
    [query |-> query, results |-> found.results, analysis |-> llm(ans)]

RECURSIVE ResultLinks(_)
ResultLinks(results) ==
    IF results = <<>> THEN <<>>
    ELSE <<LinkArtifact(Head(results).url, Head(results).title,
                        Prefix(Head(results).content, 100) \o "...")>>
             \o ResultLinks(Tail(results))

RECURSIVE PrintAll(_)
PrintAll(texts) ==
    IF texts = <<>> THEN <<>> ELSE capture_print(Head(texts)) \o PrintAll(Tail(texts))

process_researcher_task(task, now, found, ans) ==
    LET rec == Begun(task, "researcher", now)
        search_result == search(task, found, ans)
        trace ==
            << Thought("I'll use the Researcher agent to search for information on this topic."),
               Planning(<<"Analyze the search query to identify key terms",
                          "Perform a web search to gather relevant information",
                          "Analyze and synthesize the search results",
                          "Provide a comprehensive summary of the findings">>),
               Thought("Executing the research plan..."),
               Thought("Performing web search...") >>
            \o PrintAll(found.printed)
            \o get_response_prints(ans)
            \o ResultLinks(search_result.results)
            \o << Execution("web_search",
                            [query |-> task, result_count |-> Len(search_result.results)]),
                  Thought("Analyzing search results and preparing a comprehensive summary...") >>
        calls == << Call("web_search.search", task, ""),
                    Call("get_response", "researcher", "") >>
    IN Returned(trace, calls, rec, search_result.analysis, now + 1)

--------------------------------------------------------------------------
(* CoderAgent and AgentWorkflow._process_coder_task                        *)

\* CoderAgent._extract_code, first loop: blocks opened by a python fence
RECURSIVE ScanPythonBlocks(_, _)
ScanPythonBlocks(lines, st) ==
    IF lines = <<>> THEN st
    ELSE LET line == Head(lines) IN
         ScanPythonBlocks(Tail(lines),
            IF StartsWith(Strip(line), FENCE \o "python")
            THEN [st EXCEPT !.in_code_block = TRUE]
            ELSE IF Strip(line) = FENCE /\ st.in_code_block
            THEN [in_code_block |-> FALSE,
                  code_blocks |-> Append(st.code_blocks, Join(st.current_block, "\n")),
                  current_block |-> <<>>]
            ELSE IF st.in_code_block
            THEN [st EXCEPT !.current_block = Append(@, line)]
            ELSE st)

\* second loop: blocks between bare fences
RECURSIVE ScanGenericBlocks(_, _)
ScanGenericBlocks(lines, st) ==
    IF lines = <<>> THEN st
    ELSE LET line == Head(lines) IN
         ScanGenericBlocks(Tail(lines),
            IF Strip(line) = FENCE /\ ~st.in_code_block
            THEN [st EXCEPT !.in_code_block = TRUE]
            ELSE IF Strip(line) = FENCE /\ st.in_code_block
            THEN [in_code_block |-> FALSE,
                  code_blocks |-> Append(st.code_blocks, Join(st.current_block, "\n")),
                  current_block |-> <<>>]
            ELSE IF st.in_code_block
            THEN [st EXCEPT !.current_block = Append(@, line)]
            ELSE st)

\* third loop: def/class sections and their indented lines
RECURSIVE ScanIndentedCode(_, _)
ScanIndentedCode(lines, st) ==
    IF lines = <<>> THEN st
    ELSE LET line == Head(lines) IN
         ScanIndentedCode(Tail(lines),
            IF StartsWith(Strip(line), "def ") \/ StartsWith(Strip(line), "class ")
            THEN [st EXCEPT !.in_code_block = TRUE, !.current_block = Append(@, line)]
            ELSE IF st.in_code_block /\ (StartsWith(line, "    ") \/ Strip(line) = "")
            THEN [st EXCEPT !.current_block = Append(@, line)]
            ELSE IF st.in_code_block
            THEN [in_code_block |-> FALSE,
                  code_blocks |-> Append(st.code_blocks, Join(st.current_block, "\n")),
                  current_block |-> <<>>]
            ELSE st)

\* CoderAgent._extract_code
\* the end of the third loop: a block still open is closed
close_last_block(q) ==
    IF q.current_block # <<>>
    THEN [q EXCEPT !.code_blocks = Append(@, Join(q.current_block, "\n"))]
    ELSE q

coder_extract_code(response) ==
    Assign(Split(response, "\n"), LAMBDA lines :
    Assign(ScanPythonBlocks(lines, [in_code_block |-> FALSE, code_blocks |-> <<>>,
                                    current_block |-> <<>>]), LAMBDA p1 :
    Assign(IF p1.code_blocks = <<>>
           THEN ScanGenericBlocks(lines, [p1 EXCEPT !.in_code_block = FALSE])
           ELSE p1, LAMBDA p2 :
    Assign(IF p2.code_blocks = <<>>
           THEN close_last_block(
                    ScanIndentedCode(lines, [p2 EXCEPT !.in_code_block = FALSE]))
           ELSE p2, LAMBDA p3 :
    IF p3.code_blocks # <<>> THEN Longest(p3.code_blocks) ELSE ""))))

\* CoderAgent._extract_explanation
extract_explanation(response, code) ==
    Strip(Replace(Replace(response, FENCE \o "python\n" \o code \o "\n" \o FENCE, ""),
                  FENCE \o "\n" \o code \o "\n" \o FENCE, ""))

\* CoderAgent.write_code
write_code(task, ans) ==
    Assign(llm(ans), LAMBDA response :
    Assign(coder_extract_code(response), LAMBDA code :
    [task |-> task, code |-> code,
     explanation |-> extract_explanation(response, code),
     full_response |-> response]))

\* CoderAgent.execute_code: python_repl.execute, whose outcome is `run`,
\* then one LanguageModel call for the analysis
execute_code(code, run, ans) ==
    [code |-> code,
     execution_result |-> [status |-> run.status, output |-> run.output,
                           error |-> run.error],
     analysis |-> llm(ans)]

\* CoderAgent.debug_code
debug_code(code, error, ans) ==
    Assign(llm(ans), LAMBDA response :
    Assign(coder_extract_code(response), LAMBDA debugged_code :
    [original_code |-> code, error |-> error, debugged_code |-> debugged_code,
     explanation |-> extract_explanation(response, debugged_code),
     full_response |-> response]))

\* the "Format the result" part of _process_coder_task; `executed` is the
\* last execution result, absent when execute_code was never called
coder_result(code_result, executed) ==
    "# Code Solution\n\n" \o FENCE \o "python\n" \o code_result.code \o "\n" \o FENCE
        \o "\n\n## Explanation\n\n" \o code_result.explanation
        \o (IF executed = <<>> THEN ""
            ELSE LET r == executed[1].execution_result IN
                 "\n\n## Execution Result\n\n"
                     \o "Status: " \o r.status \o "\n\n"
                     \o (IF r.output # ""
                         THEN "Output:\n" \o FENCE \o "\n" \o r.output \o "\n" \o FENCE \o "\n\n"
                         ELSE "")
                     \o (IF r.error # ""
                         THEN "Error:\n" \o FENCE \o "\n" \o r.error \o "\n" \o FENCE \o "\n\n"
                         ELSE "")
                     \o "Analysis: " \o executed[1].analysis)

\* the end of _process_coder_task, common to all its paths
coder_finish(trace, calls, rec, code_result, executed, now) ==
    Returned(trace \o <<Thought("Task completed. Providing the final code solution with explanation.")>>,
             calls, rec, coder_result(code_result, executed), now + 1)

execution_failed_or_not(status) == TRUE

\* whether _process_coder_task goes on to debug_code after the first execution
execution_failed(status) == status = "error"

debugged_code_always_adopted(status) == TRUE

\* whether _process_coder_task replaces the written code by the debugged code
debugged_code_succeeded(status) == status = "success"

\* the retry of _process_coder_task after a failed first execution
coder_debug(trace0, calls0, rec, code_result, first, now, d, run2, a2) ==
    Assign(debug_code(code_result.code, first.execution_result.error, d),
           LAMBDA debug_result :
    LET error == first.execution_result.error
        trace1 == trace0
            \o << Thought("Execution failed with error:\n\n" \o FENCE \o "\n" \o error
                          \o "\n" \o FENCE \o "\n\nI'll debug the code and fix the issues.") >>
            \o get_response_prints(d)
            \o << Execution("debug_code",
                            [debugged_code_length |-> Len(debug_result.debugged_code)]) >>
        calls1 == calls0 \o << Call("debug_code", code_result.code,
                                    debug_result.debugged_code),
                               Call("get_response", "coder", "") >>
    IN IF debug_result.debugged_code = ""
       THEN coder_finish(trace1, calls1, rec, code_result, <<first>>, now)
       ELSE LET trace2 == trace1
                    \o << Thought("Code debugged. Here's the fixed solution:\n\n" \o FENCE
                                  \o "python\n" \o debug_result.debugged_code \o "\n" \o FENCE
                                  \o "\n\nExecuting the debugged code..."),
                          FileArtifact("solution.py", debug_result.debugged_code,
                                       "Debugged Python code solution") >>
                calls2 == calls1 \o << Executed(debug_result.debugged_code, run2) >>
            IN IF run2.raises
               THEN Raised(trace2, calls2, rec, run2.exception)
               ELSE LET second == execute_code(debug_result.debugged_code, run2, a2)
                        trace3 == trace2
                            \o get_response_prints(a2)
                            \o << Execution("execute_debugged_code",
                                            [status |-> run2.status,
                                             output_length |-> Len(run2.output)]) >>
                        calls3 == calls2 \o << Call("get_response", "coder", "") >>
                    IN IF debugged_code_succeeded(run2.status)
                       THEN coder_finish(
                                trace3 \o <<Thought("Debugged code executed successfully!")>>,
                                calls3, rec,
                                [code_result EXCEPT
                                    !.code = debug_result.debugged_code,
                                    !.explanation = @ \o "\n\nDebug Notes: "
                                                      \o debug_result.explanation],
                                <<second>>, now)
                       ELSE coder_finish(
                                trace3 \o <<Thought("Debugged code still has issues:\n\n" \o FENCE
                                                    \o "\n" \o run2.error \o "\n" \o FENCE)>>,
                                calls3, rec, code_result, <<second>>, now))

process_coder_task(task, now, w, run1, a1, d, run2, a2) ==
    Assign(write_code(task, w), LAMBDA code_result :
    LET rec == Begun(task, "coder", now)
        trace0 ==
            << Thought("I'll use the Coder agent to write and execute code for this task."),
               Planning(<<"Analyze the coding task requirements",
                          "Write Python code to solve the problem",
                          "Execute the code to test it",
                          "Debug any errors if necessary",
                          "Provide the final solution with explanation">>),
               Thought("Writing code to solve the task...") >>
            \o get_response_prints(w)
            \o << Execution("write_code", [code_length |-> Len(code_result.code)]) >>
        calls0 == << Call("write_code", task, code_result.code),
                    Call("get_response", "coder", "") >>
    IN IF code_result.code = ""
       THEN coder_finish(trace0 \o <<Thought("I wasn't able to write code for this task.")>>,
                         calls0, rec, code_result, <<>>, now)
       ELSE LET trace1 == trace0
                    \o << Thought("Code written successfully. Here's the solution:\n\n" \o FENCE
                                  \o "python\n" \o code_result.code \o "\n" \o FENCE
                                  \o "\n\nNow I'll execute the code to test it."),
                          FileArtifact("solution.py", code_result.code, "Python code solution"),
                          Thought("Executing the code...") >>
                calls1 == calls0 \o << Executed(code_result.code, run1) >>
            IN IF run1.raises
               THEN Raised(trace1, calls1, rec, run1.exception)
               ELSE LET first == execute_code(code_result.code, run1, a1)
                        trace2 == trace1
                            \o get_response_prints(a1)
                            \o << Execution("execute_code",
                                            [status |-> run1.status,
                                             output_length |-> Len(run1.output)]) >>
                        calls2 == calls1 \o << Call("get_response", "coder", "") >>
                    IN IF execution_failed(run1.status)
                       THEN coder_debug(trace2, calls2, rec, code_result, first, now,
                                        d, run2, a2)
                       ELSE coder_finish(
                                trace2 \o <<Thought("Code executed successfully!")>>
                                       \o (IF run1.output # ""
                                           THEN <<Thought("Output:\n\n" \o FENCE \o "\n"
                                                          \o run1.output \o "\n" \o FENCE)>>
                                           ELSE <<>>),
                                calls2, rec, code_result, <<first>>, now))

--------------------------------------------------------------------------
(* AgentWorkflow._process_supervisor_task                                  *)

process_supervisor_task(task, now, ans) ==
    LET rec == Begun(task, "supervisor", now)
        response == llm(ans)
        trace ==
            << Thought("This task requires general knowledge or coordination. I'll use the Supervisor agent to handle it directly."),
               Planning(<<"Analyze the user's request",
                             "Determine the appropriate response",
                             "Provide a comprehensive answer">>),
                  Thought("Generating response...") >>
            \o get_response_prints(ans)
            \o << Execution("generate_response", [response_length |-> Len(response)]),
                  Thought("Response generated successfully.") >>
    IN Returned(trace, <<Call("get_response", "supervisor", "")>>, rec, response, now + 1)

\* a handler that runs statements of its own and then returns what another
\* handler returns
After(trace, calls, h) == [h EXCEPT !.trace = trace \o @, !.calls = calls \o @]

--------------------------------------------------------------------------
(* Python values: None is the empty sequence, a present value a one-element*)
(* sequence; a dict is a record, and d[k] for a missing key is a KeyError. *)

None == <<>>
Some(v) == <<v>>
\* the truth value of an optional string
Truthy(o) == o # <<>> /\ o[1] # ""
HasKey(d, k) == k \in DOMAIN d

--------------------------------------------------------------------------
(* The disk under the Sandbox.  A disk is a function from absolute,        *)
(* normalised paths to entries: a directory, or a file with its content.   *)
(* Paths are resolved lexically (os.path.normpath); symbolic links are not *)
(* modelled.  An OS call raises OSError when the path has the wrong kind,  *)
(* and also whenever the environment makes it fail (`io` = "oserror").     *)

Dir == [kind |-> "dir", content |-> ""]
File(content) == [kind |-> "file", content |-> content]

\* Sandbox.__init__: the root every Sandbox instance uses
workspace_dir == "/tmp/supernova_sandbox"

\* os.path.join(a, p) for a non-empty a
path_join(a, p) ==
    IF StartsWith(p, "/") THEN p
    ELSE IF EndsWith(a, "/") THEN a \o p
    ELSE a \o "/" \o p

RECURSIVE NormParts(_, _)
NormParts(parts, stack) ==
    IF parts = <<>> THEN stack
    ELSE LET c == Head(parts) IN
         NormParts(Tail(parts),
            IF c = "" \/ c = "." THEN stack
            ELSE IF c = ".."
            THEN (IF stack = <<>> THEN stack ELSE SubSeq(stack, 1, Len(stack) - 1))
            ELSE Append(stack, c))

\* os.path.normpath of an absolute path
normpath(path) == "/" \o Join(NormParts(Split(path, "/"), <<>>), "/")

RECURSIVE RStripSlashes(_)
RStripSlashes(s) ==
    IF s # "" /\ EndsWith(s, "/") THEN RStripSlashes(Prefix(s, Len(s) - 1)) ELSE s

\* os.path.dirname: up to the last slash, trailing slashes dropped unless the
\* head is nothing but slashes
dirname(path) ==
    LET head == Prefix(path, LastIndex(path, "/")) IN
    IF RStripSlashes(head) = "" THEN head ELSE RStripSlashes(head)

\* os.path.basename: what follows the last slash
basename(path) == From(path, LastIndex(path, "/") + 1)

\* os.path.exists: a path with a trailing slash names a directory only
exists(disk, path) ==
    Assign(normpath(path), LAMBDA target :
        /\ target \in DOMAIN disk
        /\ (EndsWith(path, "/") => disk[target].kind = "dir"))
isdir(disk, path) == exists(disk, path) /\ disk[normpath(path)].kind = "dir"
isfile(disk, path) == exists(disk, path) /\ disk[normpath(path)].kind = "file"

\* whether path is inside (or is) the directory top
Within(path, top) ==
    path = top \/ StartsWith(path, IF top = "/" THEN "/" ELSE top \o "/")

\* the ancestors of a normalised path, the path itself included, "/" excluded
RECURSIVE Ancestors(_)
Ancestors(path) ==
    IF path = "/" THEN {} ELSE {path} \cup Ancestors(dirname(path))

Put(disk, path, entry) ==
    [q \in DOMAIN disk \cup {path} |-> IF q = path THEN entry ELSE disk[q]]
Remove(disk, paths) == [q \in DOMAIN disk \ paths |-> disk[q]]

\* os.makedirs(path, exist_ok=True)
makedirs(disk, path, io) ==
    Assign(normpath(path), LAMBDA target :
    LET blocked == \E q \in Ancestors(target) : q \in DOMAIN disk /\ disk[q].kind = "file"
    IN IF io = "oserror" \/ blocked
       THEN [exc |-> TRUE, disk |-> disk]
       ELSE [exc |-> FALSE,
             disk |-> [q \in DOMAIN disk \cup Ancestors(target) |->
                          IF q \in DOMAIN disk THEN disk[q] ELSE Dir]])

\* open(path, "w").write(content)
write_text(disk, path, content, io) ==
    Assign(normpath(path), LAMBDA target :
    IF io = "oserror" \/ isdir(disk, target) \/ ~isdir(disk, dirname(target))
    THEN [exc |-> TRUE, disk |-> disk]
    ELSE [exc |-> FALSE, disk |-> Put(disk, target, File(content))])

\* The files below a directory: os.walk(top) visiting every regular file.
FilesUnder(disk, top) ==
    { q \in DOMAIN disk : disk[q].kind = "file" /\ Within(q, normpath(top)) }

\* the children of a directory: os.listdir
Children(disk, path) ==
    { q \in DOMAIN disk : q # "/" /\ dirname(q) = normpath(path) }

\* a set of strings as a sequence in lexicographic order of enumeration
RECURSIVE AsSeq(_)
AsSeq(S) == IF S = {} THEN <<>> ELSE LET x == CHOOSE x \in S : TRUE IN <<x>> \o AsSeq(S \ {x})

\* os.path.relpath(path, workspace_dir) for a path inside the root
relpath(path) ==
    IF path = workspace_dir THEN "." ELSE From(path, Len(workspace_dir) + 2)

\* fnmatch of one path against a pattern whose only wildcard is "*", which
\* does not cross a "/"
RECURSIVE GlobMatch(_, _)
GlobMatch(pattern, text) ==
    IF pattern = "" THEN text = ""
    ELSE IF SubSeq(pattern, 1, 1) = "*"
    THEN \/ GlobMatch(From(pattern, 2), text)
         \/ (text # "" /\ SubSeq(text, 1, 1) # "/" /\ GlobMatch(pattern, From(text, 2)))
    ELSE text # "" /\ SubSeq(text, 1, 1) = SubSeq(pattern, 1, 1)
             /\ GlobMatch(From(pattern, 2), From(text, 2))

--------------------------------------------------------------------------
(* FileOperations (src/tools/file_operations.py).  The filesystem answers  *)
(* with an outcome `io`; the checks made before touching it are computed.  *)

allowed_extensions ==
    { ".txt", ".md", ".rst", ".log", ".ini", ".cfg", ".conf",
      ".py", ".js", ".jsx", ".ts", ".tsx", ".html", ".css", ".scss", ".less",
      ".java", ".c", ".cpp", ".h", ".hpp", ".cs", ".go", ".php", ".rb", ".swift",
      ".sh", ".bash", ".zsh", ".bat", ".ps1",
      ".json", ".yaml", ".yml", ".xml", ".csv", ".tsv", ".toml",
      ".htm", ".svg",
      ".env", ".gitignore", ".dockerignore", ".editorconfig" }

\* os.path.splitext(path)[1]: from the last dot of the last component, the
\* leading dots of the component not counting
splitext(path) ==
    LET base == From(path, LastIndex(path, "/") + 1)
        dot == LastIndex(base, ".")
    IN IF dot = 0 \/ \A i \in 1..dot : SubSeq(base, i, i) = "." THEN ""
       ELSE From(base, dot)

\* FILE_CONFIG["max_file_size"] and FILE_CONFIG["output_dir"]
max_file_size == 20 * 1024 * 1024
output_dir == "output"

\* os.getcwd(): the directory the process was started in
getcwd == "/app"

\* FileOperations._normalize_path: a path that is not absolute is made so
\* with os.path.abspath
normalize_path(path) ==
    IF StartsWith(path, "/") THEN path ELSE normpath(path_join(getcwd, path))

any_extension(ext) == TRUE

\* the extension check of write_file, passed
extension_allowed(ext) == ext \in allowed_extensions

\* FileOperations.write_file on a disk: the dict it returns and the disk it
\* leaves; io is "ok" or "oserror"
file_operations_write_file(disk, file_path, content, io) ==
    Assign(normalize_path(file_path), LAMBDA path :
    Assign(makedirs(disk, dirname(path), io), LAMBDA made :
    Assign(write_text(made.disk, path, content, io), LAMBDA written :
    IF ~extension_allowed(splitext(path))
    THEN [result |-> [status |-> "error",
                      error |-> "File extension not allowed: " \o splitext(path)],
          disk |-> disk]
    ELSE IF made.exc
    THEN [result |-> [status |-> "error",
                      error |-> "Error writing file: Permission denied"],
          disk |-> disk]
    ELSE IF written.exc
    THEN [result |-> [status |-> "error",
                      error |-> "Error writing file: Permission denied"],
          disk |-> made.disk]
    ELSE [result |-> [status |-> "success", error |-> "", path |-> path,
                      size |-> Len(content)],
          disk |-> written.disk])))

\* FileOperations.__init__ on a disk that holds the working directory:
\* os.makedirs(self.output_dir, exist_ok=True)
new_file_operations(cap) ==
    [max_file_size |-> cap,
     disk |-> makedirs([q \in Ancestors(getcwd) \cup {"/"} |-> Dir],
                       normalize_path(output_dir), "ok").disk]

\* FileOperations.write_file as the FileManager flow sees it: the dict it
\* returns on the disk the singleton was built on
write_file(file_path, content, io) ==
    file_operations_write_file(new_file_operations(max_file_size).disk, file_path,
                               content, io).result

\* whether write_file reaches os.makedirs / open(..., "w")
write_file_touches_disk(file_path) == splitext(file_path) \in allowed_extensions

\* FileOperations.read_file; io.kind is "missing", "oserror" or "ok", and
\* io.content is the content of a file that is there
read_file(file_path, io) ==
    IF io.kind = "missing"
    THEN [status |-> "error", error |-> "File not found: " \o file_path, content |-> None]
    ELSE IF splitext(file_path) \notin allowed_extensions
    THEN [status |-> "error",
          error |-> "File extension not allowed: " \o splitext(file_path),
          content |-> None]
    ELSE IF io.kind = "oserror"
    THEN [status |-> "error", error |-> "Error reading file: Permission denied",
          content |-> None]
    ELSE [status |-> "success", error |-> "", content |-> io.content,
          size |-> Len(io.content), path |-> file_path]

\* FileOperations.list_files; io.kind is "missing", "oserror" or "ok", and
\* io.files are the entries of a directory that is there
list_files(directory, io) ==
    IF io.kind = "missing"
    THEN [status |-> "error", error |-> "Directory not found: " \o directory,
          files |-> <<>>]
    ELSE IF io.kind = "oserror"
    THEN [status |-> "error", error |-> "Error listing files: Permission denied",
          files |-> <<>>]
    ELSE [status |-> "success", error |-> "", files |-> io.files,
          directory |-> directory]

--------------------------------------------------------------------------
(* FileManagerAgent (src/agents/file_manager.py)                           *)

\* FileManagerAgent._extract_content, the loop over the lines
RECURSIVE ScanContentBlocks(_, _)
ScanContentBlocks(lines, st) ==
    IF lines = <<>> THEN st
    ELSE LET line == Head(lines) IN
         ScanContentBlocks(Tail(lines),
            IF StartsWith(Strip(line), FENCE) /\ ~st.in_block
            THEN [st EXCEPT !.in_block = TRUE]
            ELSE IF Strip(line) = FENCE /\ st.in_block
            THEN [in_block |-> FALSE,
                  blocks |-> Append(st.blocks, Join(st.current_block, "\n")),
                  current_block |-> <<>>]
            ELSE IF st.in_block
            THEN [st EXCEPT !.current_block = Append(@, line)]
            ELSE st)

\* FileManagerAgent._extract_content
extract_content(response) ==
    Assign(ScanContentBlocks(Split(response, "\n"),
                             [in_block |-> FALSE, blocks |-> <<>>,
                              current_block |-> <<>>]), LAMBDA st :
    IF st.blocks = <<>> THEN response ELSE Longest(st.blocks))

\* whether FileManagerAgent._format_content asks the LanguageModel
format_content_asks(file_type) ==
    Truthy(file_type) /\ Lower(file_type[1]) \in {"markdown", "python"}

\* FileManagerAgent._format_content
format_content(content, file_type, ans) ==
    IF Lower(file_type) \in {"markdown", "python"}
    THEN Assign(extract_content(llm(ans)), LAMBDA extracted :
         IF extracted # "" THEN extracted ELSE content)
    ELSE content

\* FileManagerAgent.create_file
fm_create_file(content, file_path, file_type, ans_format, ans_review, io) ==
    LET formatted_content ==
            IF Truthy(file_type) THEN format_content(content, file_type[1], ans_format)
            ELSE content
    IN Assign(llm(ans_review), LAMBDA response :
       Assign(extract_content(response), LAMBDA improved_content :
       Assign(IF improved_content # "" THEN improved_content ELSE formatted_content,
              LAMBDA written :
       [file_path |-> file_path, content |-> written, file_type |-> file_type,
        result |-> write_file(file_path, written, io), suggestions |-> response])))

\* FileManagerAgent.create_file on a disk: the dict it returns and the disk
\* its file_operations.write_file call leaves
fm_create_file_on(disk, content, file_path, file_type, ans_format, ans_review, io) ==
    Assign(fm_create_file(content, file_path, file_type, ans_format, ans_review, io),
           LAMBDA made :
    Assign(file_operations_write_file(disk, file_path, made.content, io), LAMBDA wrote :
    [result |-> [made EXCEPT !.result = wrote.result], disk |-> wrote.disk]))

\* FileManagerAgent.read_file
fm_read_file(file_path, io, ans) ==
    Assign(read_file(file_path, io), LAMBDA result :
    IF result.status = "error" THEN result
    ELSE [file_path |-> file_path, content |-> result.content,
          analysis |-> llm(ans), result |-> result])

\* FileManagerAgent.organize_files
organize_files(directory, io, ans) ==
    Assign(list_files(directory, io), LAMBDA result :
    IF result.status = "error" THEN result
    ELSE [directory |-> directory, files |-> result.files, plan |-> llm(ans),
          result |-> result])

--------------------------------------------------------------------------
(* AgentWorkflow: the extraction helpers of the FileManager flow           *)

\* list.index(x)
IndexOf(xs, x) ==
    CHOOSE i \in 1..Len(xs) : xs[i] = x /\ \A j \in 1..(i - 1) : xs[j] # x

IsFilePathLine(line) ==
    StartsWith(Lower(line), "file path:") \/ StartsWith(Lower(line), "1. file path:")
IsContentLine(line) ==
    StartsWith(Lower(line), "content:") \/ StartsWith(Lower(line), "2. content:")
IsFileTypeLine(line) ==
    StartsWith(Lower(line), "file type:") \/ StartsWith(Lower(line), "3. file type:")

\* the content between a content label and the next file-type label
ContentAfter(lines, line) ==
    LET content_start == IndexOf(lines, line) + 1
        stops == { i \in content_start..Len(lines) : IsFileTypeLine(lines[i]) }
        content_end == IF stops = {} THEN Len(lines) + 1
                       ELSE CHOOSE i \in stops : \A j \in stops : i <= j
    IN Strip(Join(SubSeq(lines, content_start, content_end - 1), "\n"))

RECURSIVE ScanFileInfo(_, _, _)
ScanFileInfo(lines, rest, st) ==
    IF rest = <<>> THEN st
    ELSE LET line == Head(rest) IN
         ScanFileInfo(lines, Tail(rest),
            IF IsFilePathLine(line)
            THEN [st EXCEPT !.file_path = Some(Strip(SplitOnce(line, ":")[2]))]
            ELSE IF IsContentLine(line)
            THEN [st EXCEPT !.content = Some(ContentAfter(lines, line))]
            ELSE IF IsFileTypeLine(line)
            THEN [st EXCEPT !.file_type = Some(Strip(SplitOnce(line, ":")[2]))]
            ELSE st)

\* AgentWorkflow._extract_file_info, after its LanguageModel call
extract_file_info(response) ==
    LET lines == Split(response, "\n") IN
    ScanFileInfo(lines, lines, [file_path |-> None, content |-> None, file_type |-> None])

\* The loop shared by _extract_file_path and _extract_directory_path: the
\* first line that has the label, or that has a slash and no colon, decides.
\* line.split(":", 1)[1] is an IndexError when the labelled line has no colon.
RECURSIVE ScanLabelledPath(_, _)
ScanLabelledPath(lines, label) ==
    IF lines = <<>> THEN [raised |-> FALSE, value |-> None]
    ELSE LET line == Head(lines) IN
         IF StartsWith(Lower(line), label \o ":") \/ Contains(Lower(line), label)
         THEN IF Len(SplitOnce(line, ":")) < 2
              THEN [raised |-> TRUE, value |-> None]
              ELSE [raised |-> FALSE, value |-> Some(Strip(SplitOnce(line, ":")[2]))]
         ELSE IF ~Contains(line, ":") /\ Contains(line, "/")
         THEN [raised |-> FALSE, value |-> Some(Strip(line))]
         ELSE ScanLabelledPath(Tail(lines), label)

\* AgentWorkflow._extract_file_path, after its LanguageModel call
extract_file_path(response) == ScanLabelledPath(Split(response, "\n"), "file path")

\* AgentWorkflow._extract_directory_path, after its LanguageModel call
extract_directory_path(response) ==
    ScanLabelledPath(Split(response, "\n"), "directory path")

\* content[:500] + ('...' if len(content) > 500 else '')
Preview(content) == Prefix(content, 500) \o (IF Len(content) > 500 THEN "..." ELSE "")

--------------------------------------------------------------------------
(* AgentWorkflow._process_file_manager_task                                *)

fm_create_branch(task, now, rec, trace0, x, f, r, io) ==
    Assign(extract_file_info(llm(x)), LAMBDA info :
    LET content_length == IF Truthy(info.content) THEN Len(info.content[1]) ELSE 0
        trace1 == trace0
            \o << Thought("This appears to be a file creation task. I'll extract the file path and content."),
                  Planning(<<"Extract the file path and content from the task",
                             "Determine the file type",
                             "Format the content appropriately",
                             "Create the file",
                             "Verify the file was created successfully">>),
                  Thought("Extracting file path and content...") >>
            \o get_response_prints(x)
            \o << Execution("extract_file_info",
                            [file_path |-> info.file_path, file_type |-> info.file_type,
                             content_length |-> content_length]) >>
        calls1 == << Call("get_response", "supervisor", "") >>
    IN IF Truthy(info.file_path) /\ Truthy(info.content)
       THEN Assign(fm_create_file(info.content[1], info.file_path[1], info.file_type,
                                  f, r, io), LAMBDA result :
            LET file_path == info.file_path[1]
                asks == format_content_asks(info.file_type)
                trace2 == trace1
                    \o << Thought("Creating file at " \o file_path \o " with "
                                  \o Str(Len(info.content[1])) \o " characters of content...") >>
                    \o (IF asks THEN get_response_prints(f) ELSE <<>>)
                    \o get_response_prints(r)
                    \o << Execution("create_file",
                                    [file_path |-> result.file_path,
                                     status |-> result.result.status]),
                          FileArtifact(result.file_path, Preview(result.content),
                                       "File created with " \o Str(Len(result.content))
                                           \o " characters of content"),
                          Thought("File created successfully at " \o result.file_path \o ".") >>
                calls2 == calls1
                    \o << Call("file_manager.create_file", file_path, result.result.status) >>
                    \o (IF asks THEN <<Call("get_response", "file_manager", "")>> ELSE <<>>)
                    \o << Call("get_response", "file_manager", ""),
                          Call("file_operations.write_file", file_path,
                               result.result.status) >>
            IN Returned(trace2, calls2, rec,
                        "# File Created\n\nFile: " \o result.file_path
                            \o "\n\n## Content\n\n" \o FENCE \o "\n" \o Preview(result.content)
                            \o "\n" \o FENCE \o "\n\n## Notes\n\n" \o result.suggestions,
                        now + 1))
       ELSE Returned(trace1 \o <<Thought("I couldn't determine the file path or content from the request.")>>,
                     calls1, rec,
                     "I couldn't determine the file path or content from your request. Please provide more specific information.",
                     now + 1))

fm_read_branch(task, now, rec, trace0, x, io, a) ==
    Assign(extract_file_path(llm(x)), LAMBDA extracted :
    LET trace1 == trace0
            \o << Thought("This appears to be a file reading task. I'll extract the file path."),
                  Planning(<<"Extract the file path from the task",
                             "Read the file content",
                             "Analyze the file content",
                             "Provide a summary of the file">>),
                  Thought("Extracting file path...") >>
            \o get_response_prints(x)
        calls1 == << Call("get_response", "supervisor", "") >>
    IN IF extracted.raised THEN Raised(trace1, calls1, rec, "IndexError")
       ELSE LET trace2 == trace1
                    \o << Execution("extract_file_path", [file_path |-> extracted.value]) >>
            IN IF ~Truthy(extracted.value)
               THEN Returned(trace2 \o <<Thought("I couldn't determine the file path from the request.")>>,
                             calls1, rec,
                             "I couldn't determine the file path from your request. Please provide more specific information.",
                             now + 1)
               ELSE Assign(fm_read_file(extracted.value[1], io, a), LAMBDA result :
                    LET file_path == extracted.value[1]
                        analysed == ~HasKey(result, "status")
                        trace3 == trace2
                            \o << Thought("Reading file at " \o file_path \o "...") >>
                            \o (IF analysed THEN get_response_prints(a) ELSE <<>>)
                        calls3 == calls1
                            \o << Call("file_manager.read_file", file_path, ""),
                                  Call("file_operations.read_file", file_path, "") >>
                            \o (IF analysed THEN <<Call("get_response", "file_manager", "")>>
                                ELSE <<>>)
                    IN IF ~HasKey(result, "status")
                       THEN Raised(trace3, calls3, rec, "KeyError: 'status'")
                       ELSE LET trace4 == trace3
                                    \o << Execution("read_file",
                                              [file_path |-> file_path,
                                               status |-> result.status,
                                               size |-> IF result.status = "success"
                                                        THEN result.size ELSE 0]) >>
                            IN IF result.status = "success"
                               THEN Returned(
                                        trace4 \o << FileArtifact(result.file_path,
                                                         Preview(result.content),
                                                         "File read with "
                                                             \o Str(Len(result.content))
                                                             \o " characters of content"),
                                                     Thought("File read successfully. Analyzing content...") >>,
                                        calls3, rec,
                                        "# File Contents\n\nFile: " \o result.file_path
                                            \o "\n\n" \o FENCE \o "\n" \o Preview(result.content)
                                            \o "\n" \o FENCE \o "\n\n## Analysis\n\n"
                                            \o result.analysis,
                                        now + 1)
                               ELSE Returned(
                                        trace4 \o <<Thought("Error reading file: " \o result.error)>>,
                                        calls3, rec, "Error: " \o result.error, now + 1)))

RECURSIVE ListedFileArtifacts(_, _)
ListedFileArtifacts(files, directory) ==
    IF files = <<>> THEN <<>>
    ELSE (IF ~Head(files).is_dir
          THEN <<FileArtifact(Head(files).path, "",
                              "File in directory " \o directory \o ", size: "
                                  \o Str(Head(files).size) \o " bytes")>>
          ELSE <<>>)
         \o ListedFileArtifacts(Tail(files), directory)

RECURSIVE ListedFileLines(_)
ListedFileLines(files) ==
    IF files = <<>> THEN ""
    ELSE "- " \o Head(files).name \o " ("
             \o (IF Head(files).is_dir THEN "Directory" ELSE "File") \o ", "
             \o Str(Head(files).size) \o " bytes)\n" \o ListedFileLines(Tail(files))

fm_organize_branch(task, now, rec, trace0, x, io, a) ==
    Assign(extract_directory_path(llm(x)), LAMBDA extracted :
    LET trace1 == trace0
            \o << Thought("This appears to be a directory listing or organization task. I'll extract the directory path."),
                  Planning(<<"Extract the directory path from the task",
                             "List the files in the directory",
                             "Analyze the directory structure",
                             "Suggest an organization plan">>),
                  Thought("Extracting directory path...") >>
            \o get_response_prints(x)
        calls1 == << Call("get_response", "supervisor", "") >>
    IN IF extracted.raised THEN Raised(trace1, calls1, rec, "IndexError")
       ELSE Assign(organize_files(IF Truthy(extracted.value) THEN extracted.value[1]
                                  ELSE ".", io, a), LAMBDA result :
            LET directory == IF Truthy(extracted.value) THEN extracted.value[1] ELSE "."
                planned == ~HasKey(result, "status")
                trace2 == trace1
                    \o << Execution("extract_directory_path", [directory |-> directory]),
                          Thought("Listing files in directory " \o directory \o "...") >>
                    \o (IF planned THEN get_response_prints(a) ELSE <<>>)
                calls2 == calls1
                    \o << Call("file_manager.organize_files", directory, ""),
                          Call("file_operations.list_files", directory, "") >>
                    \o (IF planned THEN <<Call("get_response", "file_manager", "")>> ELSE <<>>)
            IN IF ~HasKey(result, "status")
               THEN Raised(trace2, calls2, rec, "KeyError: 'status'")
               ELSE LET trace3 == trace2
                            \o << Execution("list_directory",
                                      [directory |-> directory, status |-> result.status,
                                       file_count |-> IF result.status = "success"
                                                      THEN Len(result.files) ELSE 0]) >>
                    IN IF result.status = "success"
                       THEN Returned(
                                trace3 \o << Thought("Found " \o Str(Len(result.files))
                                                 \o " files in directory " \o directory
                                                 \o ". Creating organization plan...") >>
                                       \o ListedFileArtifacts(result.files, directory),
                                calls2, rec,
                                "# Directory Contents\n\nDirectory: " \o result.directory
                                    \o "\n\n## Files\n\n" \o ListedFileLines(result.files)
                                    \o "\n## Organization Plan\n\n" \o result.plan,
                                now + 1)
                       ELSE Returned(
                                trace3 \o <<Thought("Error listing directory: " \o result.error)>>,
                                calls2, rec, "Error: " \o result.error, now + 1)))

\* the read keywords tested before the create keywords
fm_operation_read_first(task) ==
    Assign(Lower(task), LAMBDA task_lower :
    IF Contains(task_lower, "read") \/ Contains(task_lower, "open")
           \/ Contains(task_lower, "view") THEN "read"
    ELSE IF Contains(task_lower, "create") \/ Contains(task_lower, "write")
           \/ Contains(task_lower, "save") THEN "create"
    ELSE IF Contains(task_lower, "organize") \/ Contains(task_lower, "list")
           \/ Contains(task_lower, "directory") THEN "organize"
    ELSE "supervisor")

\* The operation the FileManager flow picks for a task text.
fm_operation(task) ==
    Assign(Lower(task), LAMBDA task_lower :
    IF Contains(task_lower, "create") \/ Contains(task_lower, "write")
           \/ Contains(task_lower, "save") THEN "create"
    ELSE IF Contains(task_lower, "read") \/ Contains(task_lower, "open")
           \/ Contains(task_lower, "view") THEN "read"
    ELSE IF Contains(task_lower, "organize") \/ Contains(task_lower, "list")
           \/ Contains(task_lower, "directory") THEN "organize"
    ELSE "supervisor")

\* x: the extraction answer; f, r: the answers to create_file's formatting
\* and review questions (r is also the analysis/plan/supervisor answer of the
\* other branches); wio, rio, lio: what the filesystem does on a write, a
\* read and a listing
process_file_manager_task(task, now, x, f, r, wio, rio, lio) ==
    Assign(fm_operation(task), LAMBDA operation :
    LET rec == Begun(task, "file_manager", now)
        trace0 == << Thought("I'll use the File Manager agent to handle file operations.") >>
    IN IF operation = "create" THEN fm_create_branch(task, now, rec, trace0, x, f, r, wio)
       ELSE IF operation = "read" THEN fm_read_branch(task, now, rec, trace0, x, rio, r)
       ELSE IF operation = "organize" THEN fm_organize_branch(task, now, rec, trace0, x, lio, r)
       ELSE After(trace0 \o <<Thought("I'm not sure what file operation is being requested. I'll ask the Supervisor for guidance.")>>,
                  <<>>, process_supervisor_task(task, now, x)))

--------------------------------------------------------------------------
(* WebBrowser.navigate and BrowserAgent (the standard browser agent, the   *)
(* one AgentWorkflow builds with use_enhanced_browser=False)               *)

\* WebBrowser.navigate; nav is "ok", "uninitialized" (the browser could not
\* be started) or "exception" (the page load raised, which navigate prints)
navigate(url, nav) ==
    LET target == IF StartsWith(url, "http://") \/ StartsWith(url, "https://")
                  THEN url ELSE "https://" \o url
    IN IF nav = "uninitialized"
       THEN [status |-> "error", error |-> "Failed to initialize browser",
             content |-> "", title |-> "", url |-> target, printed |-> <<>>]
       ELSE IF nav = "exception"
       THEN [status |-> "error",
             error |-> "Error navigating to " \o target \o ": Timeout",
             content |-> "", title |-> "", url |-> target,
             printed |-> <<"Error navigating to " \o target \o ": Timeout">>]
       ELSE [status |-> "success", error |-> "", content |-> "<html>",
             text_content |-> "Example Domain", title |-> "Example Domain",
             url |-> target, printed |-> <<>>]

\* BrowserAgent.browse
browse(url, nav, ans) ==
    Assign(navigate(url, nav), LAMBDA result :
    IF result.status = "error"
    THEN [status |-> "error", error |-> result.error, url |-> url,
          analysis |-> "Failed to navigate to " \o url \o ": " \o result.error]
    ELSE [status |-> "success", error |-> "", url |-> result.url, title |-> result.title,
          text_content |-> result.text_content, analysis |-> llm(ans)])

\* BrowserAgent.extract_information
extract_information(url, information_request, nav, ans) ==
    Assign(navigate(url, nav), LAMBDA result :
    IF result.status = "error"
    THEN [status |-> "error", error |-> result.error, url |-> url,
          extraction |-> "Failed to navigate to " \o url \o ": " \o result.error]
    ELSE [status |-> "success", error |-> "", url |-> result.url, title |-> result.title,
          extraction |-> llm(ans)])

\* BrowserAgent.search_and_browse
search_and_browse(query, found, nav, ans) ==
    IF found.results = <<>>
    THEN [status |-> "error", error |-> "No search results found", query |-> query,
          analysis |-> "No search results found for query: " \o query]
    ELSE Assign(browse(found.results[1].url, nav, ans), LAMBDA browse_result :
         LET top_result == found.results[1]
         IN [status |-> "success", error |-> "", query |-> query,
             search_results |-> found.results, browsed_url |-> top_result.url,
             browse_result |-> browse_result,
             analysis |-> "Search query: " \o query \o "\n\nTop result: "
                              \o top_result.title \o " (" \o top_result.url \o ")\n\n"
                              \o browse_result.analysis])

\* what a navigation writes to the terminal, and the get_response that
\* follows a successful one
browse_prints(url, nav, ans) ==
    PrintAll(navigate(url, nav).printed)
        \o (IF navigate(url, nav).status = "success" THEN get_response_prints(ans) ELSE <<>>)

browse_calls(url, nav) ==
    << Call("web_browser.navigate", url, navigate(url, nav).status) >>
        \o (IF navigate(url, nav).status = "success"
            THEN <<Call("get_response", "browser", "")>> ELSE <<>>)

--------------------------------------------------------------------------
(* AgentWorkflow._process_browser_task                                     *)

\* The branch the Browser flow picks for a task text.
browser_operation(task) ==
    Assign(Lower(task), LAMBDA task_lower :
    IF Contains(task_lower, "search") /\ Contains(task_lower, "browse")
    THEN "search_and_browse"
    ELSE IF Contains(task_lower, "browse") \/ Contains(task_lower, "visit")
           \/ Contains(task_lower, "go to") \/ Contains(task_lower, "open")
    THEN "browse"
    ELSE IF Contains(task_lower, "extract") \/ Contains(task_lower, "get information")
           \/ Contains(task_lower, "find information")
    THEN "extract"
    ELSE "default")

\* the part of the search-and-browse branches after the query is known
browser_search_part(now, rec, trace1, calls1, query, found, nav, a) ==
    Assign(search_and_browse(query, found, nav, a), LAMBDA result :
    LET trace2 == trace1
            \o << Thought("Searching for: '" \o query \o "' and browsing the top result...") >>
            \o PrintAll(found.printed)
            \o (IF found.results # <<>> THEN browse_prints(found.results[1].url, nav, a)
                ELSE <<>>)
        calls2 == calls1
            \o << Call("browser.search_and_browse", query, result.status),
                  Call("web_search.search", query, "") >>
            \o (IF found.results # <<>> THEN browse_calls(found.results[1].url, nav)
                ELSE <<>>)
    IN IF ~HasKey(result, "browsed_url")
       THEN Raised(trace2, calls2, rec, "KeyError: 'browsed_url'")
       ELSE Returned(
                trace2
                    \o << LinkArtifact(result.browsed_url,
                                       IF HasKey(result.browse_result, "title")
                                       THEN result.browse_result.title
                                       ELSE result.browsed_url,
                                       "Top search result that was browsed"),
                          Execution("search_and_browse",
                                    [query |-> query, url |-> result.browsed_url,
                                     title |-> IF HasKey(result.browse_result, "title")
                                               THEN result.browse_result.title ELSE ""]),
                          Thought("Analyzing the content and preparing a summary...") >>,
                calls2, rec,
                "# Search and Browse Results\n\nQuery: " \o query \o "\n\nURL: "
                    \o result.browsed_url \o "\n\n## Analysis\n\n" \o result.analysis,
                now + 1))

browser_search_branch(task, now, rec, trace0, x, found, nav, a) ==
    Assign(Strip(llm(x)), LAMBDA query :
    LET trace1 == trace0
            \o << Thought("This appears to be a search and browse task. I'll extract the search query first."),
                  Planning(<<"Extract the search query from the task",
                             "Perform a web search to find relevant pages",
                             "Browse the top search result",
                             "Analyze the content of the page",
                             "Provide a comprehensive summary">>),
                  Thought("Extracting search query...") >>
            \o get_response_prints(x)
            \o << Execution("extract_query", [query |-> query]) >>
    IN browser_search_part(now, rec, trace1, <<Call("get_response", "supervisor", "")>>,
                           query, found, nav, a))

browser_default_branch(task, now, rec, trace0, found, nav, a) ==
    LET trace1 == trace0
            \o << Thought("This appears to be a general web task. I'll default to search and browse."),
                  Planning(<<"Use the task as a search query",
                             "Perform a web search to find relevant pages",
                             "Browse the top search result",
                             "Analyze the content of the page",
                             "Provide a comprehensive summary">>) >>
    IN browser_search_part(now, rec, trace1, <<>>, task, found, nav, a)

browser_browse_branch(task, now, rec, trace0, x, nav, a) ==
    Assign(Strip(llm(x)), LAMBDA answered :
    Assign(IF StartsWith(answered, "http") THEN answered ELSE "https://" \o answered,
           LAMBDA url :
    Assign(browse(url, nav, a), LAMBDA result :
    LET trace1 == trace0
            \o << Thought("This appears to be a direct browsing task. I'll extract the URL to visit."),
                  Planning(<<"Extract the URL from the task",
                             "Navigate to the website",
                             "Analyze the content of the page",
                             "Provide a comprehensive summary">>),
                  Thought("Extracting URL...") >>
            \o get_response_prints(x)
            \o << Execution("extract_url", [url |-> answered]) >>
            \o (IF StartsWith(answered, "http") THEN <<>>
                ELSE <<Thought("Adding https:// prefix to URL: " \o url)>>)
            \o << Thought("Browsing website: " \o url) >>
            \o browse_prints(url, nav, a)
            \o << LinkArtifact(result.url,
                               IF HasKey(result, "title") THEN result.title ELSE result.url,
                               "Website that was browsed"),
                  Execution("browse",
                            [url |-> result.url,
                             title |-> IF HasKey(result, "title") THEN result.title ELSE ""]),
                  Thought("Analyzing the content and preparing a summary...") >>
        calls1 == << Call("get_response", "supervisor", ""),
                     Call("browser.browse", url, result.status) >>
                  \o browse_calls(url, nav)
    IN IF ~HasKey(result, "title")
       THEN Raised(trace1, calls1, rec, "KeyError: 'title'")
       ELSE Returned(trace1, calls1, rec,
                     "# Browsing Results\n\nURL: " \o result.url \o "\nTitle: "
                         \o result.title \o "\n\n## Analysis\n\n" \o result.analysis,
                     now + 1))))

\* the loop of the extract branch over the lines of the LanguageModel's answer
RECURSIVE ScanUrlAndRequest(_, _)
ScanUrlAndRequest(lines, st) ==
    IF lines = <<>> THEN st
    ELSE LET line == Head(lines) IN
         ScanUrlAndRequest(Tail(lines),
            IF StartsWith(Lower(line), "url:")
            THEN [st EXCEPT !.url = Strip(SplitOnce(line, ":")[2])]
            ELSE IF StartsWith(Lower(line), "information request:")
                      \/ StartsWith(Lower(line), "request:")
            THEN [st EXCEPT !.information_request = Strip(SplitOnce(line, ":")[2])]
            ELSE st)

browser_extract_branch(task, now, rec, trace0, x, nav, a) ==
    Assign(ScanUrlAndRequest(Split(llm(x), "\n"),
                             [url |-> "", information_request |-> ""]), LAMBDA parsed :
    Assign(IF StartsWith(parsed.url, "http") THEN parsed.url
           ELSE "https://" \o parsed.url, LAMBDA url :
    Assign(extract_information(url, parsed.information_request, nav, a), LAMBDA result :
    LET information_request == parsed.information_request
        trace1 == trace0
            \o << Thought("This appears to be an information extraction task. I'll extract the URL and the specific information request."),
                  Planning(<<"Extract the URL and information request from the task",
                             "Navigate to the website",
                             "Extract the requested information",
                             "Provide the extracted information in a structured format">>),
                  Thought("Extracting URL and information request...") >>
            \o get_response_prints(x)
            \o << Execution("extract_url_and_request",
                            [url |-> parsed.url,
                             information_request |-> information_request]) >>
            \o (IF StartsWith(parsed.url, "http") THEN <<>>
                ELSE <<Thought("Adding https:// prefix to URL: " \o url)>>)
            \o << Thought("Browsing website " \o url \o " to extract information: '"
                          \o information_request \o "'") >>
            \o browse_prints(url, nav, a)
            \o << LinkArtifact(result.url,
                               IF HasKey(result, "title") THEN result.title ELSE result.url,
                               "Website used for information extraction: "
                                   \o information_request),
                  Execution("extract_information",
                            [url |-> result.url,
                             title |-> IF HasKey(result, "title") THEN result.title ELSE "",
                             information_request |-> information_request]),
                  Thought("Information extraction complete. Preparing the results...") >>
        calls1 == << Call("get_response", "supervisor", ""),
                     Call("browser.extract_information", url, result.status) >>
                  \o browse_calls(url, nav)
    IN IF ~HasKey(result, "title")
       THEN Raised(trace1, calls1, rec, "KeyError: 'title'")
       ELSE Returned(trace1, calls1, rec,
                     "# Information Extraction\n\nURL: " \o result.url \o "\nTitle: "
                         \o result.title \o "\n\n## Extracted Information\n\n"
                         \o result.extraction,
                     now + 1))))

\* x: the extraction answer; a: the page analysis answer; found: what the
\* web search returns; nav: what the navigation does
process_browser_task(task, now, x, a, found, nav) ==
    Assign(browser_operation(task), LAMBDA operation :
    LET rec == Begun(task, "browser", now)
        trace0 == << Thought("I'll use the Browser agent to navigate the web and extract information.") >>
    IN IF operation = "search_and_browse"
       THEN browser_search_branch(task, now, rec, trace0, x, found, nav, a)
       ELSE IF operation = "browse"
       THEN browser_browse_branch(task, now, rec, trace0, x, nav, a)
       ELSE IF operation = "extract"
       THEN browser_extract_branch(task, now, rec, trace0, x, nav, a)
       ELSE browser_default_branch(task, now, rec, trace0, found, nav, a))

--------------------------------------------------------------------------
(* SandboxFileSystem (src/tools/sandbox_fs.py).  Each method is a body     *)
(* that returns a result or raises, inside `try ... except Exception`.     *)
(* A body's value is [exc, result, disk]; Caught turns an exception into   *)
(* the error result of the except clause, and notes in `caught` that the   *)
(* clause ran.                                                             *)

OSErrorText == "[Errno 13] Permission denied"

Done(result, disk) == [exc |-> FALSE, result |-> result, disk |-> disk]
Throws(disk) == [exc |-> TRUE, result |-> [status |-> "none"], disk |-> disk]

\* a call that lets the exception of its body escape
Uncaught(body, on_error) ==
    [raised |-> body.exc, caught |-> FALSE, result |-> body.result, disk |-> body.disk]

\* try: body  except Exception as e: return on_error
Caught(body, on_error) ==
    IF body.exc
    THEN [raised |-> FALSE, caught |-> TRUE, result |-> on_error, disk |-> body.disk]
    ELSE [raised |-> FALSE, caught |-> FALSE, result |-> body.result, disk |-> body.disk]

Item(disk, q, rel) ==
    [name |-> basename(q), path |-> rel, full_path |-> q,
     is_dir |-> disk[q].kind = "dir",
     size |-> IF disk[q].kind = "file" THEN Len(disk[q].content) ELSE 0]

\* SandboxFileSystem.list_directory
list_directory(disk, path, io) ==
    LET full_path == path_join(workspace_dir, path)
        body ==
            IF ~exists(disk, full_path)
            THEN Done([status |-> "error", error |-> "Path " \o path \o " does not exist",
                       path |-> path], disk)
            ELSE IF ~isdir(disk, full_path)
            THEN Done([status |-> "error", error |-> "Path " \o path \o " is not a directory",
                       path |-> path], disk)
            ELSE IF io = "oserror" THEN Throws(disk)
            ELSE Done([status |-> "success", path |-> path, full_path |-> full_path,
                       items |-> Assign(AsSeq(Children(disk, full_path)), LAMBDA kids :
                                 [i \in 1..Len(kids) |->
                                     Item(disk, kids[i],
                                          IF path # "" THEN path_join(path, basename(kids[i]))
                                          ELSE basename(kids[i]))])],
                      disk)
    IN Caught(body, [status |-> "error", error |-> OSErrorText, path |-> path])

\* SandboxFileSystem.create_directory
create_directory(disk, path, io) ==
    Assign(makedirs(disk, path_join(workspace_dir, path), io), LAMBDA made :
    LET full_path == path_join(workspace_dir, path)
        body ==
            IF exists(disk, full_path)
            THEN IF isdir(disk, full_path)
                 THEN Done([status |-> "success",
                            message |-> "Directory " \o path \o " already exists",
                            path |-> path, full_path |-> full_path], disk)
                 ELSE Done([status |-> "error",
                            error |-> "Path " \o path \o " exists but is not a directory",
                            path |-> path], disk)
            ELSE IF made.exc THEN Throws(disk)
            ELSE Done([status |-> "success",
                       message |-> "Directory " \o path \o " created successfully",
                       path |-> path, full_path |-> full_path], made.disk)
    IN Caught(body, [status |-> "error", error |-> OSErrorText, path |-> path]))

\* shutil.copy2(source, dest): into dest when dest is a directory
copy2(disk, source_path, dest_path, io) ==
    Assign(normpath(source_path), LAMBDA src :
    Assign(IF isdir(disk, dest_path)
           THEN path_join(normpath(dest_path), basename(src))
           ELSE normpath(dest_path), LAMBDA dst :
    IF src = dst THEN [exc |-> TRUE, disk |-> disk]
       ELSE write_text(disk, dst, disk[src].content, io)))

\* SandboxFileSystem.copy_file
copy_file(disk, source, destination, io) ==
    Assign(makedirs(disk, dirname(path_join(workspace_dir, destination)), io),
           LAMBDA made :
    Assign(copy2(made.disk, path_join(workspace_dir, source),
                 path_join(workspace_dir, destination), io), LAMBDA copied :
    LET source_path == path_join(workspace_dir, source)
        dest_path == path_join(workspace_dir, destination)
        body ==
            IF ~exists(disk, source_path)
            THEN Done([status |-> "error", error |-> "Source " \o source \o " does not exist",
                       source |-> source, destination |-> destination], disk)
            ELSE IF ~isfile(disk, source_path)
            THEN Done([status |-> "error", error |-> "Source " \o source \o " is not a file",
                       source |-> source, destination |-> destination], disk)
            ELSE IF made.exc THEN Throws(disk)
            ELSE IF copied.exc THEN Throws(made.disk)
            ELSE Done([status |-> "success",
                       message |-> "File " \o source \o " copied to " \o destination,
                       source |-> source, destination |-> destination,
                       source_path |-> source_path, dest_path |-> dest_path],
                      copied.disk)
    IN Caught(body, [status |-> "error", error |-> OSErrorText,
                     source |-> source, destination |-> destination])))

\* shutil.move(source, dest): a file or a whole directory tree, renamed to
\* dest, or into dest when dest is a directory (an entry of that name already
\* there is an error)
move(disk, source_path, dest_path, io) ==
    Assign(normpath(source_path), LAMBDA src :
    Assign(isdir(disk, dest_path) /\ normpath(dest_path) # src, LAMBDA into :
    Assign(IF into THEN path_join(normpath(dest_path), basename(src))
           ELSE normpath(dest_path), LAMBDA dst :
    Assign({ q \in DOMAIN disk : Within(q, src) }, LAMBDA moved :
    Assign(Remove(disk, moved), LAMBDA rest :
    LET target(q) == dst \o From(q, Len(src) + 1)
    IN IF io # "oserror" /\ dst = src
       THEN [exc |-> FALSE, disk |-> disk]
       ELSE IF
          \/ io = "oserror"
          \/ Within(dst, src)
          \/ ~isdir(disk, dirname(dst))
          \/ (into /\ dst \in DOMAIN disk)
          \/ (dst \in DOMAIN disk /\ disk[src].kind = "dir")
       THEN [exc |-> TRUE, disk |-> disk]
       ELSE [exc |-> FALSE,
             disk |-> [q \in DOMAIN rest \cup { target(m) : m \in moved } |->
                          IF \E m \in moved : target(m) = q
                          THEN disk[CHOOSE m \in moved : target(m) = q]
                          ELSE rest[q]]])))))

\* SandboxFileSystem.move_file
move_file(disk, source, destination, io) ==
    Assign(makedirs(disk, dirname(path_join(workspace_dir, destination)), io),
           LAMBDA made :
    Assign(move(made.disk, path_join(workspace_dir, source),
                path_join(workspace_dir, destination), io), LAMBDA moved :
    LET source_path == path_join(workspace_dir, source)
        dest_path == path_join(workspace_dir, destination)
        body ==
            IF ~exists(disk, source_path)
            THEN Done([status |-> "error", error |-> "Source " \o source \o " does not exist",
                       source |-> source, destination |-> destination], disk)
            ELSE IF made.exc THEN Throws(disk)
            ELSE IF moved.exc THEN Throws(made.disk)
            ELSE Done([status |-> "success",
                       message |-> "File " \o source \o " moved to " \o destination,
                       source |-> source, destination |-> destination,
                       source_path |-> source_path, dest_path |-> dest_path],
                      moved.disk)
    IN Caught(body, [status |-> "error", error |-> OSErrorText,
                     source |-> source, destination |-> destination])))

\* SandboxFileSystem.find_files: glob.glob skips what it cannot scan; the OS
\* calls that can raise are the ones made on a match
find_files(disk, pattern, io) ==
    Assign(normpath(path_join(workspace_dir, pattern)), LAMBDA full_pattern :
    Assign(AsSeq({ q \in DOMAIN disk : GlobMatch(full_pattern, q) }), LAMBDA hits :
    LET body ==
            IF io = "oserror" /\ hits # <<>> THEN Throws(disk)
            ELSE Done([status |-> "success", pattern |-> pattern,
                       matches |-> [i \in 1..Len(hits) |->
                                       [path |-> relpath(hits[i]), full_path |-> hits[i],
                                        is_dir |-> disk[hits[i]].kind = "dir",
                                        size |-> IF disk[hits[i]].kind = "file"
                                                 THEN Len(disk[hits[i]].content) ELSE 0]],
                       count |-> Len(hits)], disk)
    IN Caught(body, [status |-> "error", error |-> OSErrorText, pattern |-> pattern])))

\* SandboxFileSystem.get_file_info (the three timestamps are not modelled)
get_file_info(disk, path, io) ==
    LET full_path == path_join(workspace_dir, path)
        body ==
            IF ~exists(disk, full_path)
            THEN Done([status |-> "error", error |-> "Path " \o path \o " does not exist",
                       path |-> path], disk)
            ELSE IF io = "oserror" THEN Throws(disk)
            ELSE Done([status |-> "success", path |-> path, full_path |-> full_path,
                       exists |-> TRUE, is_dir |-> isdir(disk, full_path),
                       is_file |-> isfile(disk, full_path),
                       size |-> IF isdir(disk, full_path) THEN 0
                                ELSE Len(disk[normpath(full_path)].content),
                       created |-> 0, modified |-> 0, accessed |-> 0], disk)
    IN Caught(body, [status |-> "error", error |-> OSErrorText, path |-> path])

--------------------------------------------------------------------------
(* Sandbox (src/tools/sandbox.py).  The state of a Sandbox is its disk, the *)
(* table self.files of tracked files and the number of identifiers drawn.  *)
(* A method's value is [raised, caught, result, sb]; the two execute        *)
(* methods also tell in `timed_out` that the TimeoutExpired clause ran, and *)
(* execute_python in `started` that it went as far as subprocess.run.      *)

\* the timeout handed to subprocess.run, in seconds
SUBPROCESS_TIMEOUT == 30

\* str(uuid.uuid4()): the n-th identifier drawn in this process
uuid4(n) == "uuid-" \o Str(n)

\* traceback.format_exc() inside an except clause
format_exc == "Traceback (most recent call last): " \o OSErrorText

\* a disk that holds the directories down to the sandbox root and nothing else
EmptyDisk == [q \in Ancestors(workspace_dir) \cup {"/"} |-> Dir]

\* Sandbox.__init__ on a disk
new_sandbox(disk) ==
    [disk |-> makedirs(disk, workspace_dir, "ok").disk, files |-> <<>>, uuids |-> 0]

Tracked(path, type, content) == [path |-> path, type |-> type, content |-> content]

untracked(files, file_id, entry) == files

\* self.files[file_id] = {"path": ..., "type": ..., "content": ..., ...}
track(files, file_id, entry) == Put(files, file_id, entry)

Outcome(body, sb, on_error) ==
    Assign(Caught(body, on_error), LAMBDA c :
    [raised |-> c.raised, caught |-> c.caught, result |-> c.result,
     sb |-> [sb EXCEPT !.disk = c.disk]])

\* subprocess.run(..., timeout=30): what the child process `proc` gives.  proc
\* is [spawned, seconds, returncode, stdout, stderr]; a child that runs longer
\* than the timeout is killed and TimeoutExpired is raised.
subprocess_run(proc) ==
    IF ~proc.spawned THEN [exc |-> "OSError"]
    ELSE IF proc.seconds > SUBPROCESS_TIMEOUT THEN [exc |-> "TimeoutExpired"]
    ELSE [exc |-> "", returncode |-> proc.returncode,
          stdout |-> proc.stdout, stderr |-> proc.stderr]

TimedOutText == "Execution timed out after " \o Str(SUBPROCESS_TIMEOUT) \o " seconds"

\* Sandbox.execute_python
sandbox_execute_python(sb, code, io, proc) ==
    Assign(uuid4(sb.uuids + 1), LAMBDA file_id :
    Assign(path_join(workspace_dir, file_id \o ".py"), LAMBDA file_path :
    Assign(write_text(sb.disk, file_path, code, io), LAMBDA written :
    LET sb0 == [sb EXCEPT !.uuids = @ + 1]
        sb1 == [sb0 EXCEPT !.disk = written.disk,
                           !.files = track(@, file_id, Tracked(file_path, "python", code))]
        run == subprocess_run(proc)
    IN IF written.exc
       THEN [raised |-> FALSE, caught |-> TRUE, timed_out |-> FALSE, started |-> FALSE,
             sb |-> sb0,
             result |-> [status |-> "error", error |-> OSErrorText,
                         traceback |-> format_exc,
                         file_id |-> file_id, file_path |-> file_path]]
       ELSE IF run.exc = "TimeoutExpired"
       THEN [raised |-> FALSE, caught |-> TRUE, timed_out |-> TRUE, started |-> TRUE,
             sb |-> sb1,
             result |-> [status |-> "error", error |-> TimedOutText,
                         file_id |-> file_id, file_path |-> file_path]]
       ELSE IF run.exc # ""
       THEN [raised |-> FALSE, caught |-> TRUE, timed_out |-> FALSE, started |-> TRUE,
             sb |-> sb1,
             result |-> [status |-> "error", error |-> OSErrorText,
                         traceback |-> format_exc,
                         file_id |-> file_id, file_path |-> file_path]]
       ELSE [raised |-> FALSE, caught |-> FALSE, timed_out |-> FALSE, started |-> TRUE,
             sb |-> sb1,
             result |-> [status |-> IF run.returncode = 0 THEN "success" ELSE "error",
                         stdout |-> run.stdout, stderr |-> run.stderr,
                         file_id |-> file_id, file_path |-> file_path]])))

\* Sandbox.execute_command
sandbox_execute_command(sb, command, proc) ==
    LET run == subprocess_run(proc)
    IN IF run.exc = "TimeoutExpired"
       THEN [raised |-> FALSE, caught |-> TRUE, timed_out |-> TRUE, sb |-> sb,
             result |-> [status |-> "error", error |-> TimedOutText,
                         command |-> command]]
       ELSE IF run.exc # ""
       THEN [raised |-> FALSE, caught |-> TRUE, timed_out |-> FALSE, sb |-> sb,
             result |-> [status |-> "error", error |-> OSErrorText,
                         traceback |-> format_exc, command |-> command]]
       ELSE [raised |-> FALSE, caught |-> FALSE, timed_out |-> FALSE, sb |-> sb,
             result |-> [status |-> IF run.returncode = 0 THEN "success" ELSE "error",
                         stdout |-> run.stdout, stderr |-> run.stderr,
                         command |-> command]]

\* Sandbox.create_file
sandbox_create_file(sb, filename, content, io) ==
    Assign(path_join(workspace_dir, filename), LAMBDA file_path :
    Assign(makedirs(sb.disk, dirname(file_path), io), LAMBDA made :
    Assign(write_text(made.disk, file_path, content, io), LAMBDA written :
    Assign(uuid4(sb.uuids + 1), LAMBDA file_id :
    Assign(IF made.exc THEN Throws(sb.disk)
           ELSE IF written.exc THEN Throws(made.disk)
           ELSE Done([status |-> "success", file_id |-> file_id,
                      file_path |-> file_path, filename |-> filename],
                     written.disk), LAMBDA body :
    Assign(Outcome(body, sb,
                   [status |-> "error", error |-> OSErrorText,
                    traceback |-> format_exc, filename |-> filename]), LAMBDA out :
    IF body.exc THEN out
    ELSE [out EXCEPT !.sb.uuids = @ + 1,
                        !.sb.files = track(@, file_id, Tracked(file_path, "file", content))]))))))

\* Sandbox.read_file
sandbox_read_file(sb, filename, io) ==
    LET file_path == path_join(workspace_dir, filename)
        body == IF ~exists(sb.disk, file_path)
                THEN Done([status |-> "error",
                           error |-> "File " \o filename \o " does not exist",
                           filename |-> filename], sb.disk)
                ELSE IF io = "oserror" \/ isdir(sb.disk, file_path) THEN Throws(sb.disk)
                ELSE Done([status |-> "success",
                           content |-> sb.disk[normpath(file_path)].content,
                           file_path |-> file_path, filename |-> filename], sb.disk)
    IN Outcome(body, sb,
               [status |-> "error", error |-> OSErrorText,
                traceback |-> format_exc, filename |-> filename])

\* Sandbox.list_files: os.walk skips what it cannot scan; the OS calls that
\* can raise are the ones made on a file found
sandbox_list_files(sb, io) ==
    Assign(AsSeq(FilesUnder(sb.disk, workspace_dir)), LAMBDA found :
    LET body == IF io = "oserror" /\ found # <<>> THEN Throws(sb.disk)
                ELSE Done([status |-> "success",
                           files |-> [i \in 1..Len(found) |->
                                         [filename |-> relpath(found[i]),
                                          path |-> found[i],
                                          size |-> Len(sb.disk[found[i]].content)]]],
                          sb.disk)
    IN Outcome(body, sb,
               [status |-> "error", error |-> OSErrorText, traceback |-> format_exc]))

\* Sandbox.delete_file: os.remove, then every tracked entry whose recorded
\* path is the joined path, character for character, is dropped
sandbox_delete_file(sb, filename, io) ==
    Assign(path_join(workspace_dir, filename), LAMBDA file_path :
    Assign(IF ~exists(sb.disk, file_path)
           THEN Done([status |-> "error",
                      error |-> "File " \o filename \o " does not exist",
                      filename |-> filename], sb.disk)
           ELSE IF io = "oserror" \/ isdir(sb.disk, file_path) THEN Throws(sb.disk)
           ELSE Done([status |-> "success", filename |-> filename],
                     Remove(sb.disk, {normpath(file_path)})), LAMBDA body :
    Assign(Outcome(body, sb,
                   [status |-> "error", error |-> OSErrorText,
                    traceback |-> format_exc, filename |-> filename]), LAMBDA out :
    IF body.exc \/ body.result.status # "success" THEN out
    ELSE [out EXCEPT !.sb.files =
                Remove(@, { id \in DOMAIN @ : @[id].path = file_path })])))

\* Sandbox.clean: os.remove on every file under the root; an os.remove that
\* fails leaves the files removed before it removed and self.files as it was
sandbox_clean(sb, io, removed) ==
    Assign(IF io = "oserror" /\ FilesUnder(sb.disk, workspace_dir) # {}
           THEN Throws(Remove(sb.disk, removed))
           ELSE Done([status |-> "success",
                      message |-> "Sandbox cleaned successfully"],
                     Remove(sb.disk, FilesUnder(sb.disk, workspace_dir))), LAMBDA body :
    Assign(Outcome(body, sb,
                   [status |-> "error", error |-> OSErrorText,
                    traceback |-> format_exc]), LAMBDA out :
    IF body.exc THEN out ELSE [out EXCEPT !.sb.files = <<>>]))

\* Sandbox.list_directory ... get_file_info: the calls on self.fs
sandbox_list_directory(sb, path, io) ==
    Assign(list_directory(sb.disk, path, io), LAMBDA r :
    [raised |-> r.raised, caught |-> r.caught, result |-> r.result,
     sb |-> [sb EXCEPT !.disk = r.disk]])
sandbox_create_directory(sb, path, io) ==
    Assign(create_directory(sb.disk, path, io), LAMBDA r :
    [raised |-> r.raised, caught |-> r.caught, result |-> r.result,
     sb |-> [sb EXCEPT !.disk = r.disk]])
sandbox_copy_file(sb, source, destination, io) ==
    Assign(copy_file(sb.disk, source, destination, io), LAMBDA r :
    [raised |-> r.raised, caught |-> r.caught, result |-> r.result,
     sb |-> [sb EXCEPT !.disk = r.disk]])
sandbox_move_file(sb, source, destination, io) ==
    Assign(move_file(sb.disk, source, destination, io), LAMBDA r :
    [raised |-> r.raised, caught |-> r.caught, result |-> r.result,
     sb |-> [sb EXCEPT !.disk = r.disk]])
sandbox_find_files(sb, pattern, io) ==
    Assign(find_files(sb.disk, pattern, io), LAMBDA r :
    [raised |-> r.raised, caught |-> r.caught, result |-> r.result,
     sb |-> [sb EXCEPT !.disk = r.disk]])
sandbox_get_file_info(sb, path, io) ==
    Assign(get_file_info(sb.disk, path, io), LAMBDA r :
    [raised |-> r.raised, caught |-> r.caught, result |-> r.result,
     sb |-> [sb EXCEPT !.disk = r.disk]])

--------------------------------------------------------------------------
(* SandboxAgent (src/agents/sandbox_agent.py).  A method's value is        *)
(* [raised, exception, result]; the analysis of an execution is one        *)
(* LanguageModel call, whose answer is `a`.                                *)

\* SandboxAgent.execute_python: result["stderr"] is read whenever the status
\* is not "success"
sandbox_agent_execute_python(sb, code, io, proc, a) ==
    Assign(sandbox_execute_python(sb, code, io, proc).result, LAMBDA result :
    IF result.status # "success" /\ ~HasKey(result, "stderr")
    THEN [raised |-> TRUE, exception |-> "KeyError: 'stderr'", result |-> result]
    ELSE [raised |-> FALSE, exception |-> "",
          result |-> [status |-> result.status, stdout |-> result.stdout,
                      stderr |-> result.stderr, file_id |-> result.file_id,
                      file_path |-> result.file_path, analysis |-> llm(a),
                      code |-> code]])

\* SandboxAgent.execute_command
sandbox_agent_execute_command(sb, command, proc, a) ==
    Assign(sandbox_execute_command(sb, command, proc).result, LAMBDA result :
    IF result.status # "success" /\ ~HasKey(result, "stderr")
    THEN [raised |-> TRUE, exception |-> "KeyError: 'stderr'", result |-> result]
    ELSE [raised |-> FALSE, exception |-> "",
          result |-> [status |-> result.status, stdout |-> result.stdout,
                      stderr |-> result.stderr, command |-> command,
                      analysis |-> llm(a)]])

\* SandboxAgent.create_file
sandbox_agent_create_file(sb, filename, content, io) ==
    Assign(sandbox_create_file(sb, filename, content, io).result, LAMBDA result :
    [status |-> result.status,
     file_id |-> IF HasKey(result, "file_id") THEN result.file_id ELSE "",
     file_path |-> IF HasKey(result, "file_path") THEN result.file_path ELSE "",
     filename |-> filename, content |-> content,
     error |-> IF HasKey(result, "error") THEN result.error ELSE ""])

\* result.get('error', 'Unknown error')
ErrorOf(result) == IF HasKey(result, "error") THEN result.error ELSE "Unknown error"

\* a dict with one more key
WithAnalysis(result, analysis) ==
    [k \in DOMAIN result \cup {"analysis"} |->
        IF k = "analysis" THEN analysis ELSE result[k]]

\* the number of elements of a sequence that satisfy is_dir, or do not
CountDirs(items, wanted) == Cardinality({ i \in 1..Len(items) : items[i].is_dir = wanted })

\* SandboxAgent._analyze_directory_listing
analyze_directory_listing(result) ==
    IF result.items = <<>> THEN "Directory '" \o result.path \o "' is empty."
    ELSE "Directory '" \o result.path \o "' contains " \o Str(Len(result.items))
             \o " items: " \o Str(CountDirs(result.items, FALSE)) \o " files and "
             \o Str(CountDirs(result.items, TRUE)) \o " directories."

\* SandboxAgent.list_directory
sandbox_agent_list_directory(sb, path, io) ==
    Assign(sandbox_list_directory(sb, path, io).result, LAMBDA result :
    WithAnalysis(result,
        IF result.status = "success" THEN analyze_directory_listing(result)
        ELSE "Error listing directory: " \o ErrorOf(result)))

\* SandboxAgent.create_directory
sandbox_agent_create_directory(sb, path, io) ==
    Assign(sandbox_create_directory(sb, path, io).result, LAMBDA result :
    WithAnalysis(result,
        IF result.status = "success"
        THEN "Successfully created directory '" \o path \o "'."
        ELSE "Failed to create directory '" \o path \o "': " \o ErrorOf(result)))

\* SandboxAgent.copy_file
sandbox_agent_copy_file(sb, source, destination, io) ==
    Assign(sandbox_copy_file(sb, source, destination, io).result, LAMBDA result :
    WithAnalysis(result,
        IF result.status = "success"
        THEN "Successfully copied file from '" \o source \o "' to '" \o destination \o "'."
        ELSE "Failed to copy file from '" \o source \o "' to '" \o destination \o "': "
                 \o ErrorOf(result)))

\* SandboxAgent.move_file
sandbox_agent_move_file(sb, source, destination, io) ==
    Assign(sandbox_move_file(sb, source, destination, io).result, LAMBDA result :
    WithAnalysis(result,
        IF result.status = "success"
        THEN "Successfully moved file from '" \o source \o "' to '" \o destination \o "'."
        ELSE "Failed to move file from '" \o source \o "' to '" \o destination \o "': "
                 \o ErrorOf(result)))

\* SandboxAgent.find_files
sandbox_agent_find_files(sb, pattern, io) ==
    Assign(sandbox_find_files(sb, pattern, io).result, LAMBDA result :
    WithAnalysis(result,
        IF result.status = "success"
        THEN IF result.count > 0
             THEN "Found " \o Str(result.count) \o " files matching pattern '"
                      \o pattern \o "'."
             ELSE "No files found matching pattern '" \o pattern \o "'."
        ELSE "Error finding files with pattern '" \o pattern \o "': " \o ErrorOf(result)))

\* SandboxAgent.get_file_info
sandbox_agent_get_file_info(sb, path, io) ==
    Assign(sandbox_get_file_info(sb, path, io).result, LAMBDA result :
    WithAnalysis(result,
        IF result.status = "success"
        THEN IF result.is_dir THEN "'" \o path \o "' is a directory."
             ELSE "'" \o path \o "' is a file of size " \o Str(result.size) \o " bytes."
        ELSE "Error getting information for '" \o path \o "': " \o ErrorOf(result)))

\* a label's value, None when it reads "not found"
Labelled(value) == IF Lower(value) = "not found" THEN None ELSE Some(value)

RECURSIVE ScanFilenameContent(_, _)
ScanFilenameContent(lines, st) ==
    IF lines = <<>> THEN st
    ELSE LET line == Head(lines) IN
         ScanFilenameContent(Tail(lines),
            IF StartsWith(Lower(line), "filename:")
            THEN [st EXCEPT !.filename = Labelled(Strip(SplitOnce(line, ":")[2]))]
            ELSE IF StartsWith(Lower(line), "content:")
            THEN [st EXCEPT !.content = Labelled(Strip(From(line, 9)))]
            ELSE st)

\* SandboxAgent.extract_file_info, after its LanguageModel call: a content
\* that is missing or empty is looked for again as everything that follows
\* "Content:", unless the response begins with it
sandbox_agent_extract_file_info(response) ==
    Assign(ScanFilenameContent(Split(response, "\n"),
                               [filename |-> None, content |-> None]), LAMBDA st :
    Assign(Find(response, "Content:"), LAMBDA at :
    IF (st.content = None \/ st.content = Some("")) /\ at > 1
       THEN [st EXCEPT !.content = Labelled(Strip(From(response, at + 8)))]
       ELSE st))

--------------------------------------------------------------------------
(* AgentWorkflow: the extraction helpers of the Sandbox flow               *)

RECURSIVE ScanCodeBlock(_, _)
ScanCodeBlock(lines, st) ==
    IF lines = <<>> THEN st.cleaned_lines
    ELSE LET line == Head(lines) IN
         ScanCodeBlock(Tail(lines),
            IF StartsWith(Strip(line), FENCE)
            THEN [st EXCEPT !.in_code_block = ~@]
            ELSE IF ~st.in_code_block \/ Strip(line) # ""
            THEN [st EXCEPT !.cleaned_lines = Append(@, line)]
            ELSE st)

\* AgentWorkflow._clean_code_block
clean_code_block(text) ==
    Strip(Join(ScanCodeBlock(Split(text, "\n"),
                             [in_code_block |-> FALSE, cleaned_lines |-> <<>>]), "\n"))

\* AgentWorkflow._extract_code and _extract_command, after the call
extract_code(response) == clean_code_block(response)
extract_command(response) == clean_code_block(response)

\* path[1:-1] when the text starts and ends with the same quote character
Unquote(text) ==
    IF StartsWith(text, "\"") /\ EndsWith(text, "\"")
    THEN SubSeq(text, 2, Len(text) - 1)
    ELSE IF StartsWith(text, "'") /\ EndsWith(text, "'")
    THEN SubSeq(text, 2, Len(text) - 1)
    ELSE text

\* AgentWorkflow._extract_path and _extract_pattern, after the call
extract_path(response) == Unquote(Strip(response))
extract_pattern(response) == Unquote(Strip(response))

RECURSIVE ScanSourceDestination(_, _)
ScanSourceDestination(lines, st) ==
    IF lines = <<>> THEN st
    ELSE LET line == Head(lines) IN
         ScanSourceDestination(Tail(lines),
            IF StartsWith(Lower(line), "source:")
            THEN [st EXCEPT !.source = Labelled(Strip(SplitOnce(line, ":")[2]))]
            ELSE IF StartsWith(Lower(line), "destination:")
            THEN [st EXCEPT !.destination = Labelled(Strip(SplitOnce(line, ":")[2]))]
            ELSE st)

UnquoteOptional(o) == IF Truthy(o) THEN Some(Unquote(o[1])) ELSE o

\* AgentWorkflow._extract_source_destination, after the call
extract_source_destination(response) ==
    Assign(ScanSourceDestination(Split(response, "\n"),
                                 [source |-> None, destination |-> None]), LAMBDA st :
       [source |-> UnquoteOptional(st.source),
        destination |-> UnquoteOptional(st.destination)])

--------------------------------------------------------------------------
(* AgentWorkflow._handle_* : the Sandbox flow's filesystem branches.  Each *)
(* returns its text; none of them touches self.tasks.                      *)

\* directory or '.'
OrDot(path) == IF path = "" THEN "." ELSE path

RECURSIVE ItemLines(_, _)
ItemLines(items, key) ==
    IF items = <<>> THEN ""
    ELSE "- " \o Head(items)[key] \o ": "
             \o (IF Head(items).is_dir THEN "Directory" ELSE "File") \o ", "
             \o Str(Head(items).size) \o " bytes\n" \o ItemLines(Tail(items), key)

handle_list_directory(task, now, rec, trace0, x, sb, io) ==
    Assign(extract_path(llm(x)), LAMBDA directory :
    Assign(sandbox_agent_list_directory(sb, directory, io), LAMBDA result :
    LET ok == result.status = "success"
        trace1 == trace0
            \o << Thought("This appears to be a directory listing task. I'll extract the directory path."),
                  Planning(<<"Extract the directory path from the task",
                             "List the directory contents",
                             "Analyze the directory structure",
                             "Provide a comprehensive summary">>),
                  Thought("Extracting directory path...") >>
            \o get_response_prints(x)
            \o << Execution("extract_path", [path |-> directory]),
                  Thought("Listing contents of directory '" \o directory \o "'..."),
                  Execution("list_directory",
                            [path |-> directory, status |-> result.status,
                             item_count |-> IF ok THEN Len(result.items) ELSE 0]) >>
        calls1 == << Call("get_response", "supervisor", ""),
                     Call("sandbox.list_directory", directory, result.status) >>
    IN IF ok
       THEN ReturnedUnrecorded(
                trace1 \o <<Thought("Successfully listed directory '" \o directory \o "'.")>>,
                calls1, rec,
                "# Directory Contents\n\nPath: " \o OrDot(directory) \o "\n\n## Items\n\n"
                    \o (IF result.items = <<>> THEN "Directory is empty.\n"
                        ELSE ItemLines(result.items, "name"))
                    \o "\n## Analysis\n\n" \o result.analysis)
       ELSE ReturnedUnrecorded(
                trace1 \o <<Thought("Error listing directory: " \o result.error)>>,
                calls1, rec,
                "# Error Listing Directory\n\nPath: " \o OrDot(directory)
                    \o "\n\n## Error\n\n" \o result.error)))

handle_create_directory(task, now, rec, trace0, x, sb, io) ==
    Assign(extract_path(llm(x)), LAMBDA directory :
    Assign(sandbox_agent_create_directory(sb, directory, io), LAMBDA result :
    LET trace1 == trace0
            \o << Thought("This appears to be a directory creation task. I'll extract the directory path."),
                  Planning(<<"Extract the directory path from the task",
                             "Create the directory",
                             "Verify the directory was created successfully",
                             "Provide a confirmation and summary">>),
                  Thought("Extracting directory path...") >>
            \o get_response_prints(x)
            \o << Execution("extract_path", [path |-> directory]) >>
        calls1 == << Call("get_response", "supervisor", "") >>
        trace2 == trace1
            \o << Thought("Creating directory '" \o directory \o "'..."),
                  Execution("create_directory",
                            [path |-> directory, status |-> result.status]) >>
        calls2 == calls1 \o << Call("sandbox.create_directory", directory, result.status) >>
    IN IF directory = ""
       THEN ReturnedUnrecorded(
                trace1 \o <<Thought("I couldn't extract a directory path from the request.")>>,
                calls1, rec,
                "I couldn't extract a directory path from your request. Please provide a specific path for the directory you want to create.")
       ELSE IF result.status = "success"
       THEN ReturnedUnrecorded(
                trace2 \o <<Thought("Successfully created directory '" \o directory \o "'.")>>,
                calls2, rec,
                "# Directory Created\n\nPath: " \o directory \o "\n\n## Status\n\n"
                    \o result.message)
       ELSE ReturnedUnrecorded(
                trace2 \o <<Thought("Error creating directory: " \o result.error)>>,
                calls2, rec,
                "# Error Creating Directory\n\nPath: " \o directory \o "\n\n## Error\n\n"
                    \o result.error)))

\* _handle_copy_file (verb "copy") and _handle_move_file (verb "move"): the two
\* methods differ in the sandbox call and in their wording only
handle_transfer(verb, past, gerund, task, now, rec, trace0, x, sb, io) ==
    Assign(extract_source_destination(llm(x)), LAMBDA paths :
    LET trace1 == trace0
            \o << Thought("This appears to be a file " \o verb
                              \o " task. I'll extract the source and destination paths."),
                  Planning(<<"Extract the source and destination paths from the task",
                             Capitalize(verb) \o " the file",
                             "Verify the file was " \o past \o " successfully",
                             "Provide a confirmation and summary">>),
                  Thought("Extracting source and destination paths...") >>
            \o get_response_prints(x)
            \o << Execution("extract_paths",
                            [source |-> paths.source, destination |-> paths.destination]) >>
        calls1 == << Call("get_response", "supervisor", "") >>
    IN IF ~Truthy(paths.source) \/ ~Truthy(paths.destination)
       THEN ReturnedUnrecorded(
                trace1 \o <<Thought("I couldn't extract both source and destination paths from the request.")>>,
                calls1, rec,
                "I couldn't extract both source and destination paths from your request. Please provide specific paths for the file you want to "
                    \o verb \o " and where you want to " \o verb \o " it to.")
       ELSE Assign(IF verb = "copy"
                   THEN sandbox_agent_copy_file(sb, paths.source[1],
                                                paths.destination[1], io)
                   ELSE sandbox_agent_move_file(sb, paths.source[1],
                                                paths.destination[1], io),
                   LAMBDA result :
            LET source == paths.source[1]
                destination == paths.destination[1]
                trace2 == trace1
                    \o << Thought(gerund \o " file from '" \o source \o "' to '"
                                      \o destination \o "'..."),
                          Execution(verb \o "_file",
                                    [source |-> source, destination |-> destination,
                                     status |-> result.status]) >>
                calls2 == calls1
                    \o << Call("sandbox." \o verb \o "_file", source, result.status) >>
            IN IF result.status = "success"
               THEN ReturnedUnrecorded(
                        trace2 \o <<Thought("Successfully " \o past \o " file from '"
                                               \o source \o "' to '" \o destination \o "'.")>>,
                        calls2, rec,
                        "# File " \o Capitalize(past) \o "\n\nSource: " \o source
                            \o "\nDestination: " \o destination \o "\n\n## Status\n\n"
                            \o result.message)
               ELSE ReturnedUnrecorded(
                        trace2 \o <<Thought("Error " \o Lower(gerund) \o " file: "
                                               \o result.error)>>,
                        calls2, rec,
                        "# Error " \o gerund \o " File\n\nSource: " \o source
                            \o "\nDestination: " \o destination \o "\n\n## Error\n\n"
                            \o result.error)))

handle_copy_file(task, now, rec, trace0, x, sb, io) ==
    handle_transfer("copy", "copied", "Copying", task, now, rec, trace0, x, sb, io)

handle_move_file(task, now, rec, trace0, x, sb, io) ==
    handle_transfer("move", "moved", "Moving", task, now, rec, trace0, x, sb, io)

handle_find_files(task, now, rec, trace0, x, sb, io) ==
    Assign(extract_pattern(llm(x)), LAMBDA pattern :
    Assign(sandbox_agent_find_files(sb, pattern, io), LAMBDA result :
    LET ok == result.status = "success"
        trace1 == trace0
            \o << Thought("This appears to be a file search task. I'll extract the search pattern."),
                  Planning(<<"Extract the search pattern from the task",
                             "Find files matching the pattern",
                             "Analyze the search results",
                             "Provide a comprehensive summary">>),
                  Thought("Extracting search pattern...") >>
            \o get_response_prints(x)
            \o << Execution("extract_pattern", [pattern |-> pattern]) >>
        calls1 == << Call("get_response", "supervisor", "") >>
        trace2 == trace1
            \o << Thought("Finding files matching pattern '" \o pattern \o "'..."),
                  Execution("find_files",
                            [pattern |-> pattern, status |-> result.status,
                             match_count |-> IF ok THEN result.count ELSE 0]) >>
        calls2 == calls1 \o << Call("sandbox.find_files", pattern, result.status) >>
    IN IF pattern = ""
       THEN ReturnedUnrecorded(
                trace1 \o <<Thought("I couldn't extract a search pattern from the request.")>>,
                calls1, rec,
                "I couldn't extract a search pattern from your request. Please provide a specific pattern for the files you want to find.")
       ELSE IF ok
       THEN ReturnedUnrecorded(
                trace2 \o <<Thought("Found " \o Str(result.count)
                                       \o " files matching pattern '" \o pattern \o "'.")>>,
                calls2, rec,
                "# Search Results\n\nPattern: " \o pattern \o "\n\n## Matches ("
                    \o Str(Len(result.matches)) \o ")\n\n"
                    \o (IF result.matches = <<>> THEN "No files found matching the pattern.\n"
                        ELSE ItemLines(result.matches, "path"))
                    \o "\n## Analysis\n\n" \o result.analysis)
       ELSE ReturnedUnrecorded(
                trace2 \o <<Thought("Error finding files: " \o result.error)>>,
                calls2, rec,
                "# Error Finding Files\n\nPattern: " \o pattern \o "\n\n## Error\n\n"
                    \o result.error)))

\* time.ctime of a timestamp within the first minute of the epoch (UTC); the
\* disk of the model keeps no timestamps and reports 0 for each
ctime(t) ==
    "Thu Jan  1 00:00:" \o (IF t < 10 THEN "0" ELSE "") \o Str(t) \o " 1970"

handle_file_info(task, now, rec, trace0, x, sb, io) ==
    Assign(extract_path(llm(x)), LAMBDA path :
    Assign(sandbox_agent_get_file_info(sb, path, io), LAMBDA result :
    LET trace1 == trace0
            \o << Thought("This appears to be a file info task. I'll extract the file path."),
                  Planning(<<"Extract the file path from the task",
                             "Get information about the file",
                             "Analyze the file information",
                             "Provide a comprehensive summary">>),
                  Thought("Extracting file path...") >>
            \o get_response_prints(x)
            \o << Execution("extract_path", [path |-> path]) >>
        calls1 == << Call("get_response", "supervisor", "") >>
        trace2 == trace1
            \o << Thought("Getting information about '" \o path \o "'..."),
                  Execution("get_file_info", [path |-> path, status |-> result.status]) >>
        calls2 == calls1 \o << Call("sandbox.get_file_info", path, result.status) >>
    IN IF path = ""
       THEN ReturnedUnrecorded(
                trace1 \o <<Thought("I couldn't extract a file path from the request.")>>,
                calls1, rec,
                "I couldn't extract a file path from your request. Please provide a specific path for the file you want information about.")
       ELSE IF result.status = "success"
       THEN ReturnedUnrecorded(
                trace2 \o <<Thought("Successfully retrieved information about '"
                                       \o path \o "'.")>>,
                calls2, rec,
                "# File Information\n\nPath: " \o path \o "\n\n## Details\n\n"
                    \o (IF result.is_dir THEN "Type: Directory\n"
                        ELSE "Type: File\nSize: " \o Str(result.size) \o " bytes\n")
                    \o "Created: " \o ctime(result.created) \o "\n"
                    \o "Modified: " \o ctime(result.modified) \o "\n"
                    \o "Accessed: " \o ctime(result.accessed) \o "\n"
                    \o "\n## Analysis\n\n" \o result.analysis)
       ELSE ReturnedUnrecorded(
                trace2 \o <<Thought("Error getting file information: " \o result.error)>>,
                calls2, rec,
                "# Error Getting File Information\n\nPath: " \o path \o "\n\n## Error\n\n"
                    \o result.error)))

--------------------------------------------------------------------------
(* AgentWorkflow._process_sandbox_task                                     *)

\* any(keyword in task.lower() for keyword in keywords), given task.lower()
AnyOf(task_lower, keywords) == \E k \in keywords : Contains(task_lower, k)

\* The branch the Sandbox flow picks for a task text.
sandbox_operation(task) ==
    Assign(Lower(task), LAMBDA task_lower :
    IF AnyOf(task_lower, {"list directory", "list files", "show directory", "show files"})
    THEN "list_directory"
    ELSE IF AnyOf(task_lower, {"create directory", "make directory", "make folder", "create folder"})
    THEN "create_directory"
    ELSE IF AnyOf(task_lower, {"copy file", "duplicate file"}) THEN "copy_file"
    ELSE IF AnyOf(task_lower, {"move file", "rename file"}) THEN "move_file"
    ELSE IF AnyOf(task_lower, {"find files", "search files", "find file", "search file"})
    THEN "find_files"
    ELSE IF AnyOf(task_lower, {"file info", "file information", "file details", "file stats"})
    THEN "file_info"
    ELSE IF AnyOf(task_lower, {"create file", "write file", "save file", "make file"})
    THEN "create_file"
    ELSE IF AnyOf(task_lower, {"python", "code", "script"}) THEN "python"
    ELSE IF AnyOf(task_lower, {"command", "shell", "terminal", "bash", "run"}) THEN "command"
    ELSE "clarify")

sandbox_create_file_branch(task, now, rec, trace0, x, sb, io) ==
    Assign(sandbox_agent_extract_file_info(llm(x)), LAMBDA file_info :
    LET trace1 == trace0
            \o << Thought("This appears to be a file creation task. I'll extract the file information."),
                  Planning(<<"Extract the filename and content from the task",
                             "Create the file in the sandbox environment",
                             "Verify the file was created successfully",
                             "Provide a confirmation and summary">>),
                  Thought("Extracting file information...") >>
            \o get_response_prints(x)
            \o << Execution("extract_file_info",
                            [filename |-> file_info.filename,
                             content_length |-> IF Truthy(file_info.content)
                                                THEN Len(file_info.content[1]) ELSE 0]) >>
        calls1 == << Call("get_response", "sandbox", "") >>
    IN IF Truthy(file_info.filename) /\ Truthy(file_info.content)
       THEN Assign(sandbox_agent_create_file(sb, file_info.filename[1],
                                             file_info.content[1], io), LAMBDA result :
            LET filename == file_info.filename[1]
                content == file_info.content[1]
                trace2 == trace1
                    \o << Thought("Creating file '" \o filename \o "' with "
                                      \o Str(Len(content)) \o " characters of content."),
                          Execution("create_file",
                                    [status |-> result.status, filename |-> result.filename,
                                     file_path |-> result.file_path]),
                          FileArtifact(result.filename, Preview(content),
                                       "File created with " \o Str(Len(content))
                                           \o " characters of content") >>
                calls2 == calls1 \o << Call("sandbox.create_file", filename, result.status) >>
            IN IF result.status = "success"
               THEN Returned(
                        trace2 \o <<Thought("File created successfully at "
                                               \o result.file_path \o ".")>>,
                        calls2, rec,
                        "# File Created\n\nFile: " \o result.filename
                            \o "\n\n## Content\n\n" \o FENCE \o "\n" \o Preview(content)
                            \o "\n" \o FENCE
                            \o "\n\n## Status\n\nFile was successfully created in the sandbox environment.",
                        now + 1)
               ELSE Returned(
                        trace2 \o <<Thought("Failed to create file: " \o result.error)>>,
                        calls2, rec,
                        "# File Creation Failed\n\nFile: " \o filename
                            \o "\n\n## Error\n\n" \o result.error
                            \o "\n\nPlease check the filename and try again.",
                        now + 1))
       ELSE Returned(
                trace1 \o <<Thought("I couldn't extract the filename or content from the request.")>>,
                calls1, rec,
                "I couldn't extract the necessary information to create a file. Please provide both a filename and content in your request.",
                now + 1))

\* the part of the python and command branches after the execution: they
\* differ in their wording (what: "Code" / "Command") only
sandbox_report(what, trace2, calls2, rec, head, result, now) ==
    LET executed == << Execution("execute_" \o (IF what = "Code" THEN "python" ELSE "command"),
                                 [status |-> result.status,
                                  stdout_length |-> Len(result.stdout),
                                  stderr_length |-> Len(result.stderr)]) >>
    IN IF result.status = "success"
       THEN Returned(
                trace2 \o executed \o <<Thought(what \o " executed successfully!")>>
                    \o (IF result.stdout # ""
                        THEN <<Thought("Output:\n\n" \o FENCE \o "\n" \o result.stdout
                                           \o "\n" \o FENCE)>>
                        ELSE <<>>),
                calls2, rec,
                head \o (IF result.stdout # ""
                         THEN FENCE \o "\n" \o result.stdout \o "\n" \o FENCE \o "\n\n"
                         ELSE "No output produced.\n\n")
                     \o "## Analysis\n\n" \o result.analysis,
                now + 1)
       ELSE Returned(
                trace2 \o executed
                    \o <<Thought(what \o " execution failed with error:\n\n" \o FENCE \o "\n"
                                     \o result.stderr \o "\n" \o FENCE)>>,
                calls2, rec,
                head \o "Error:\n" \o FENCE \o "\n" \o result.stderr \o "\n" \o FENCE \o "\n\n"
                     \o "## Analysis\n\n" \o result.analysis,
                now + 1)

sandbox_python_branch(task, now, rec, trace0, x, a, sb, io, proc) ==
    Assign(extract_code(llm(x)), LAMBDA code :
    LET trace1 == trace0
            \o << Thought("This appears to be a code execution task. I'll extract the Python code to execute."),
                  Planning(<<"Extract the Python code from the task",
                             "Prepare the code for execution",
                             "Execute the code in a sandbox environment",
                             "Analyze the execution results",
                             "Provide a comprehensive summary">>),
                  Thought("Extracting Python code...") >>
            \o get_response_prints(x)
            \o << Execution("extract_code", [code_length |-> Len(code)]) >>
        calls1 == << Call("get_response", "supervisor", "") >>
    IN IF code # ""
       THEN Assign(sandbox_agent_execute_python(sb, code, io, proc, a), LAMBDA executed :
            LET trace2 == trace1
                    \o << Thought("Executing the following Python code:\n\n" \o FENCE
                                      \o "python\n" \o code \o "\n" \o FENCE),
                          FileArtifact("sandbox_code.py", code,
                                       "Python code to execute in sandbox") >>
                calls2 == calls1
                    \o << RanInSandbox("sandbox.execute_python", code, executed.result) >>
            IN IF executed.raised THEN Raised(trace2, calls2, rec, executed.exception)
               ELSE sandbox_report("Code", trace2 \o get_response_prints(a),
                        calls2 \o << Call("get_response", "sandbox", "") >>, rec,
                        "# Code Execution Result\n\n## Code\n\n" \o FENCE \o "python\n"
                            \o code \o "\n" \o FENCE \o "\n\n## Output\n\n",
                        executed.result, now))
       ELSE Returned(
                trace1 \o <<Thought("I couldn't extract any Python code from the request.")>>,
                calls1, rec,
                "I couldn't extract any Python code from your request. Please provide the code you want to execute.",
                now + 1))

sandbox_command_branch(task, now, rec, trace0, x, a, sb, proc) ==
    Assign(extract_command(llm(x)), LAMBDA command :
    LET trace1 == trace0
            \o << Thought("This appears to be a command execution task. I'll extract the shell command to execute."),
                  Planning(<<"Extract the shell command from the task",
                             "Prepare the command for execution",
                             "Execute the command in a sandbox environment",
                             "Analyze the execution results",
                             "Provide a comprehensive summary">>),
                  Thought("Extracting shell command...") >>
            \o get_response_prints(x)
            \o << Execution("extract_command", [command |-> command]) >>
        calls1 == << Call("get_response", "supervisor", "") >>
    IN IF command # ""
       THEN Assign(sandbox_agent_execute_command(sb, command, proc, a), LAMBDA executed :
            LET trace2 == trace1
                    \o << Thought("Executing the following shell command:\n\n" \o FENCE
                                      \o "bash\n" \o command \o "\n" \o FENCE) >>
                calls2 == calls1
                    \o << RanInSandbox("sandbox.execute_command", command, executed.result) >>
            IN IF executed.raised THEN Raised(trace2, calls2, rec, executed.exception)
               ELSE sandbox_report("Command", trace2 \o get_response_prints(a),
                        calls2 \o << Call("get_response", "sandbox", "") >>, rec,
                        "# Command Execution Result\n\n## Command\n\n" \o FENCE \o "bash\n"
                            \o command \o "\n" \o FENCE \o "\n\n## Output\n\n",
                        executed.result, now))
       ELSE Returned(
                trace1 \o <<Thought("I couldn't extract any shell command from the request.")>>,
                calls1, rec,
                "I couldn't extract any shell command from your request. Please provide the command you want to execute.",
                now + 1))

\* x: the extraction answer; a: the analysis answer; sb: the Sandbox the
\* agent works on; io: what the disk does; proc: what the child process does
process_sandbox_task(task, now, x, a, sb, io, proc) ==
    Assign(sandbox_operation(task), LAMBDA operation :
    LET rec == Begun(task, "sandbox", now)
        trace0 == << Thought("I'll use the Sandbox agent to execute code or commands in a safe environment.") >>
    IN CASE operation = "list_directory" ->
                handle_list_directory(task, now, rec, trace0, x, sb, io)
         [] operation = "create_directory" ->
                handle_create_directory(task, now, rec, trace0, x, sb, io)
         [] operation = "copy_file" -> handle_copy_file(task, now, rec, trace0, x, sb, io)
         [] operation = "move_file" -> handle_move_file(task, now, rec, trace0, x, sb, io)
         [] operation = "find_files" -> handle_find_files(task, now, rec, trace0, x, sb, io)
         [] operation = "file_info" -> handle_file_info(task, now, rec, trace0, x, sb, io)
         [] operation = "create_file" ->
                sandbox_create_file_branch(task, now, rec, trace0, x, sb, io)
         [] operation = "python" ->
                sandbox_python_branch(task, now, rec, trace0, x, a, sb, io, proc)
         [] operation = "command" ->
                sandbox_command_branch(task, now, rec, trace0, x, a, sb, proc)
         [] OTHER ->
                Returned(trace0 \o <<Thought("I'm not sure what type of sandbox task is being requested. I'll ask the user for clarification.")>>,
                         <<>>, rec,
                         "I'm not sure if you want me to execute Python code or a shell command. Please specify which type of execution you need and provide the code or command.",
                         now + 1))

--------------------------------------------------------------------------
(* Delegator harness: delegate_task and the dispatch on every answer built *)
(* from up to MaxFrags fragments.                                          *)

MaxFrags == 2

\* Pieces of LanguageModel answers: every keyword, in several cases, pieces
\* that only form a keyword when joined ("web"+"site", "file"+" "+"manager"),
\* and neutral text.
Fragments ==
    { "researcher", "Researcher", "CODER", "coder", "Browser", "browse",
      "web", "site", "file", " ", "_", "Manager", "manager", "Sandbox",
      "execute", "Command", "terminal", "SHELL", "he", "ll", "plan:" }

RECURSIVE SeqsUpTo(_, _)
SeqsUpTo(S, n) ==
    IF n = 0 THEN { <<>> }
    ELSE LET shorter == SeqsUpTo(S, n - 1) IN
         shorter \cup { Append(q, x) : q \in shorter, x \in S }

NoDecision == [raised |-> FALSE, specialist |-> "none", reasoning |-> "",
               handler |-> "none"]

\* The harnesses that a specification does not exercise stay as constructed.
DIdle ==
    /\ dPc = "off"
    /\ dFrags = <<>>
    /\ dLlmFails = FALSE
    /\ dDecision = NoDecision

TIdle ==
    /\ tThinking = new_thinking(0, NORMAL_THINKING)
    /\ tClock = 0

WIdle ==
    /\ pc = "off"
    /\ user_input = ""
    /\ self_thinking_mode = NORMAL_THINKING
    /\ messages = <<>>
    /\ tasks = <<>>
    /\ current_task = None
    /\ thinking = new_thinking(0, NORMAL_THINKING)
    /\ returned = None
    /\ escaped = ""
    /\ call_log = <<>>
    /\ clock = 0
    /\ started = 0
    /\ runs = 0
    /\ in_mode = <<>>

NoCall == [op |-> "none"]

SIdle ==
    /\ sSandbox = new_sandbox(EmptyDisk)
    /\ sLast = NoCall
    /\ sOps = 0

FIdle ==
    /\ fFiles = new_file_operations(max_file_size)
    /\ fLast = NoCall
    /\ fOps = 0

IIdle ==
    /\ iSandbox = new_sandbox(EmptyDisk)
    /\ iOwner = <<>>
    /\ iLast = NoCall
    /\ iOps = 0

\* a stream under TerminalCapture: what the StringIO holds and the texts
\* written to the real stream
NoStream == [capture |-> "", original |-> <<>>]

RIdle ==
    /\ rLast = NoCall
    /\ rOps = 0

GIdle ==
    /\ gSys = [stdout |-> <<>>, stderr |-> <<>>]
    /\ gRun = <<>>
    /\ gOps = 0

PIdle ==
    /\ pPhase = "off"
    /\ pPending = <<>>
    /\ pMade = <<>>
    /\ pOutcome = NoCall

CIdle ==
    /\ cEntered = FALSE
    /\ cStreams = [stdout |-> NoStream, stderr |-> NoStream]
    /\ cThinking = new_thinking(0, NORMAL_THINKING)
    /\ cClock = 0
    /\ cLast = NoCall
    /\ cOps = 0

DInit ==
    /\ dPc = "ready"
    /\ dFrags \in SeqsUpTo(Fragments, MaxFrags)
    /\ dLlmFails \in BOOLEAN
    /\ dDecision = NoDecision
    /\ TIdle
    /\ WIdle
    /\ SIdle
    /\ FIdle
    /\ IIdle
    /\ CIdle
    /\ PIdle
    /\ GIdle
    /\ RIdle

\* delegate_task(task) followed by run's dispatch on the decision
DDelegate ==
    /\ dPc = "ready"
    /\ LET d == delegate_task(dLlmFails, Concat(dFrags)) IN
       dDecision' = [raised |-> d.raised, specialist |-> d.specialist,
                     reasoning |-> d.reasoning,
                     handler |-> IF d.raised THEN "none" ELSE dispatch(d.specialist)]
    /\ dPc' = "delegated"
    /\ UNCHANGED <<dFrags, dLlmFails, tvars, wvars, svars, fvars, ivars, cvars, pvars, gvars, rvars>>

DNext == DDelegate

SpecDelegate == DInit /\ [][DNext]_vars

--------------------------------------------------------------------------
(* Trace Recorder harness: any sequence of ThinkingProcess calls on one    *)
(* recorder, with the clock advancing between calls.  time.time() is read  *)
(* as tClock; the system clock is taken not to be set back.                *)

MaxOps == 3
MaxClock == 1

Thoughts == {"Executing the code..."}
Plans == {<<"Analyze the request", "Provide an answer">>}
Outputs == {"Using local Ollama"}
Urls == {"https://example.com"}
Paths == {"solution.py"}

TInit ==
    /\ tThinking \in {new_thinking(0, m) : m \in ThinkingModes}
    /\ tClock = 0
    /\ DIdle
    /\ WIdle
    /\ SIdle
    /\ FIdle
    /\ IIdle
    /\ CIdle
    /\ PIdle
    /\ GIdle
    /\ RIdle

\* time passes
TTick ==
    /\ tClock < MaxClock
    /\ tClock' = tClock + 1
    /\ UNCHANGED <<tThinking, dvars, wvars, svars, fvars, ivars, cvars, pvars, gvars, rvars>>

\* The harness stops after MaxOps recorded events and artifacts.
TRoom == Len(tThinking.steps) + Len(tThinking.artifacts) < MaxOps

TStartThinking ==
    /\ \E m \in ThinkingModes :
           tThinking' = start_thinking(tThinking, tClock, "task", m)
    /\ UNCHANGED <<tClock, dvars, wvars, svars, fvars, ivars, cvars, pvars, gvars, rvars>>

TAddThinking ==
    /\ TRoom
    /\ \E t \in Thoughts : tThinking' = add_thinking(tThinking, tClock, t, 0)
    /\ UNCHANGED <<tClock, dvars, wvars, svars, fvars, ivars, cvars, pvars, gvars, rvars>>

TAddDeepThinking ==
    /\ TRoom
    /\ tThinking' = add_deep_thinking(tThinking, tClock, "reviewing", <<>>)
    /\ UNCHANGED <<tClock, dvars, wvars, svars, fvars, ivars, cvars, pvars, gvars, rvars>>

TAddSuperDeepThinking ==
    /\ TRoom
    /\ tThinking' = add_super_deep_thinking(tThinking, tClock, "reviewing", <<>>)
    /\ UNCHANGED <<tClock, dvars, wvars, svars, fvars, ivars, cvars, pvars, gvars, rvars>>

TAddPlanning ==
    /\ TRoom
    /\ \E p \in Plans : tThinking' = add_planning(tThinking, tClock, p)
    /\ UNCHANGED <<tClock, dvars, wvars, svars, fvars, ivars, cvars, pvars, gvars, rvars>>

TAddExecution ==
    /\ TRoom
    /\ tThinking' = add_execution(tThinking, tClock, "execute_code",
                                  [status |-> "success", output_length |-> 0])
    /\ UNCHANGED <<tClock, dvars, wvars, svars, fvars, ivars, cvars, pvars, gvars, rvars>>

TAddTerminalOutput ==
    /\ TRoom
    /\ \E o \in Outputs : tThinking' = add_terminal_output(tThinking, tClock, o)
    /\ UNCHANGED <<tClock, dvars, wvars, svars, fvars, ivars, cvars, pvars, gvars, rvars>>

TAddLink ==
    /\ TRoom
    /\ \E u \in Urls : tThinking' = add_link(tThinking, tClock, u, "", "")
    /\ UNCHANGED <<tClock, dvars, wvars, svars, fvars, ivars, cvars, pvars, gvars, rvars>>

TAddFile ==
    /\ TRoom
    /\ \E f \in Paths : tThinking' = add_file(tThinking, tClock, f, "", "")
    /\ UNCHANGED <<tClock, dvars, wvars, svars, fvars, ivars, cvars, pvars, gvars, rvars>>

TNext ==
    \/ TTick
    \/ TStartThinking
    \/ TAddThinking
    \/ TAddDeepThinking
    \/ TAddSuperDeepThinking
    \/ TAddPlanning
    \/ TAddExecution
    \/ TAddTerminalOutput
    \/ TAddLink
    \/ TAddFile

SpecTrace == TInit /\ [][TNext]_vars

--------------------------------------------------------------------------
(* Orchestrator: AgentWorkflow.run.  One action is one whole call of run() *)
(* on the current instance, for the handler the delegation dispatches; the *)
(* outcomes of the dependencies (LanguageModel, web search, browser,       *)
(* PythonREPL, file system, Sandbox, child process) are drawn from the     *)
(* sets below.  run() reads the clock when it starts (`clock`) and when    *)
(* the handler is done (`clock + 1`); the system clock is taken to advance *)
(* between two runs.  The instance is built with debug=False and the       *)
(* standard browser agent.                                                 *)

MaxRuns == 2

\* a LanguageModel call that answers, and one that raises
Ans(text) == [fails |-> FALSE, text |-> text]
Failing == [fails |-> TRUE, text |-> ""]

\* the first run of the process draws from the wide set, later runs from the
\* narrow one
Pool(wide, narrow) == IF runs = 0 THEN wide ELSE narrow

\* the Delegator's LanguageModel call
Delegations ==
    Pool({ Ans("researcher"), Ans("The Coder should write this."),
           Ans("browser\n\n  It needs a web page."), Ans("file manager"),
           Ans("Use the sandbox."), Ans("I will answer myself."), Failing },
         { Ans("I will answer myself."), Ans("Use the sandbox.") })

ListTask == "list files in the workspace directory"

\* task texts: one for every branch of the FileManager, Browser and Sandbox
\* flows
SandboxTasks ==
    Pool({ ListTask, "create directory reports and open it",
           "copy file a.txt to b.txt", "move file a.txt, then view it",
           "find files and extract their names", "search and browse for file info",
           "create file notes.txt", "run the python script", "run ls in the shell",
           "hello" },
         { ListTask })
FileManagerTasks ==
    Pool({ "create directory reports and open it",
           "List the directory, then VIEW a.txt", ListTask, "hello" }, {})
BrowserTasks ==
    Pool({ "search and browse for file info", "create directory reports and open it",
           "find files and extract their names", "hello" }, {})
PlainTasks == { "hello" }

Answers == Pool({ Ans("Hello."), Failing }, { Ans("Hello.") })

\* what web_search.search returns and prints; it never returns no result
Result(n) ==
    [url |-> "https://example.com/" \o Str(n), title |-> "Result " \o Str(n),
     content |-> "content " \o Str(n)]
Searches ==
    Pool({ [results |-> <<Result(1)>>, printed |-> <<>>],
           [results |-> <<Result(1), Result(2)>>,
            printed |-> <<"No results from DuckDuckGo. Using simulated search.">>] },
         {})

\* what the LanguageModel writes for CoderAgent.write_code and debug_code
Programs ==
    Pool({ Ans("Here it is:\n" \o FENCE \o "python\nprint(1)\n" \o FENCE \o "\nDone."),
           Ans("I cannot write this."), Failing }, {})
Fixes ==
    Pool({ Ans(FENCE \o "python\nprint(2)\n" \o FENCE \o "\nFixed the bug."),
           Ans("I see no bug."), Failing }, {})

\* what PythonREPL.execute gives: a result with a status, or sys.exit() in
\* the executed code, which leaves execute as SystemExit
Ran(status, output, error) ==
    [raises |-> FALSE, exception |-> "", status |-> status, output |-> output,
     error |-> error]
Executions ==
    Pool({ Ran("success", "1\n", ""),
           Ran("error", "", "NameError: name 'x' is not defined"),
           Ran("timeout", "", "Execution timed out after 60 seconds"),
           [raises |-> TRUE, exception |-> "SystemExit", status |-> "", output |-> "",
            error |-> ""] }, {})

\* the FileManager flow's extraction answers
FileAnswers ==
    Pool({ Ans("File path: notes/a.txt\nContent:\nhello\nFile type: text"),
           Ans("File path: notes/a.txt"), Ans("The file path is missing"),
           Ans("notes/a.txt"), Ans("Directory path: docs"), Ans("I do not know."),
           Ans("File path: run.exe\nContent:\nhello"), Failing }, {})
Reviews ==
    Pool({ Ans("Looks good."),
           Ans("Improved:\n" \o FENCE \o "\nhello world\n" \o FENCE), Failing }, {})
\* the file system as the FileManager's call finds it: the path is missing,
\* the OS call fails, or the path is there (read_file reads `content` from
\* it, list_files lists `files` in it)
FileSystems ==
    Pool({ [kind |-> "missing"], [kind |-> "oserror"],
           [kind |-> "ok", content |-> "hello",
            files |-> << [name |-> "a.txt", path |-> "docs/a.txt", is_dir |-> FALSE,
                          size |-> 5],
                         [name |-> "old", path |-> "docs/old", is_dir |-> TRUE,
                          size |-> 0] >>] }, {})
\* open(path, "w") on that file system
WriteOutcome(fs) == IF fs.kind = "oserror" THEN "oserror" ELSE "ok"

\* the Browser flow's extraction answers and what the navigation does
BrowserAnswers ==
    Pool({ Ans("https://example.com"), Ans("example.com"),
           Ans("URL: https://example.com\nInformation request: the title"),
           Failing }, {})
Navigations == Pool({ "ok", "uninitialized", "exception" }, {})

\* the Sandbox flow's extraction answers
SandboxAnswers ==
    Pool({ Ans("a.txt"), Ans("'d'"), Ans(""),
           Ans("Source: a.txt\nDestination: d/b.txt"),
           Ans("Filename: notes.txt\nContent: hello"),
           Ans(FENCE \o "python\nprint(1)\n" \o FENCE), Ans("ls"), Ans("*.txt"),
           Failing },
         { Ans("") })

\* the Sandbox singleton as a run finds it: just built, or holding a file
\* and a directory
UsedDisk ==
    Put(Put(new_sandbox(EmptyDisk).disk, workspace_dir \o "/a.txt", File("hi")),
        workspace_dir \o "/d", Dir)
Sandboxes == Pool({ new_sandbox(EmptyDisk), new_sandbox(UsedDisk) },
                  { new_sandbox(UsedDisk) })

\* the child process of subprocess.run
Child(seconds, returncode, stdout, stderr) ==
    [spawned |-> TRUE, seconds |-> seconds, returncode |-> returncode,
     stdout |-> stdout, stderr |-> stderr]
ChildProcesses ==
    { Child(1, 0, "1\n", ""), Child(1, 1, "", "boom"),
      Child(SUBPROCESS_TIMEOUT + 1, 0, "", ""),
      [spawned |-> FALSE, seconds |-> 0, returncode |-> 0, stdout |-> "",
       stderr |-> ""] }
\* what a Sandbox call meets: the outcome of its file-system calls and the
\* child process it spawns
Environments ==
    Pool({ [io |-> "ok", proc |-> p] : p \in ChildProcesses }
             \cup { [io |-> "oserror", proc |-> Child(1, 0, "1\n", "")] },
         { [io |-> "ok", proc |-> Child(1, 0, "1\n", "")] })

HumanMessage(content) == [role |-> "human", content |-> content]
AIMessage(content) == [role |-> "ai", content |-> content]

\* every line as it is, blank or not
AllLines(lines) == lines

\* plan = [line.strip() for line in plan_lines if line.strip()]
RECURSIVE StrippedLines(_)
StrippedLines(lines) ==
    IF lines = <<>> THEN <<>>
    ELSE (IF Strip(Head(lines)) # "" THEN <<Strip(Head(lines))>> ELSE <<>>)
             \o StrippedLines(Tail(lines))

\* run(), from start_thinking to the dispatch: what it records
run_before_handler(mode, deleg) ==
    LET specialist == delegate_task(deleg.fails, deleg.text).specialist
        reasoning == delegate_task(deleg.fails, deleg.text).reasoning
    IN << Thought("Analyzing the user's request to determine the best specialist for this task.") >>
       \o (IF mode = DEEP_THINKING
           THEN <<DeepThought("I need to carefully analyze this request to determine which specialist has the right expertise.",
                              <<"Task requirements", "Required expertise",
                                "Potential challenges", "Success criteria">>)>>
           ELSE IF mode = SUPER_DEEP_THINKING
           THEN <<SuperDeepThought("I need to thoroughly analyze this request from multiple angles to ensure optimal specialist selection.")>>
           ELSE <<>>)
       \o get_response_prints(deleg)
       \o << Thought("I've decided to delegate this task to the "
                     \o Capitalize(specialist) \o " specialist.") >>
       \o (IF mode = DEEP_THINKING
           THEN <<DeepThought("Let me analyze why the " \o Capitalize(specialist)
                                  \o " specialist is the best choice for this task.",
                              <<"Specialist capabilities", "Task alignment",
                                "Expected outcomes",
                                "Alternative specialists considered">>)>>
           ELSE IF mode = SUPER_DEEP_THINKING
           THEN <<SuperDeepThought("I need to thoroughly justify my selection of the "
                                       \o Capitalize(specialist)
                                       \o " specialist and consider all implications of this delegation decision.")>>
           ELSE <<>>)
       \o << Planning(StrippedLines(Split(reasoning, "\n"))) >>

\* run(), after the handler has returned: what it records
run_after_handler(mode) ==
    << Thought("Task completed. Here's the final result.") >>
       \o (IF mode = DEEP_THINKING
           THEN <<DeepThought("Let me review the completed task and assess the quality of the result.",
                              <<"Task fulfillment", "Result quality",
                                "Potential improvements", "Next steps">>)>>
           ELSE IF mode = SUPER_DEEP_THINKING
           THEN <<SuperDeepThought("I need to thoroughly evaluate the completed task, the quality of the result, and consider potential follow-up actions.")>>
           ELSE <<>>)

\* the handler run() dispatches for a delegation answer
handler_of(deleg) == dispatch(delegate_task(deleg.fails, deleg.text).specialist)

\* The dependency calls a ThinkingProcess method makes while it records the
\* event `e`: add_thinking, add_deep_thinking and add_super_deep_thinking
\* build their text from constants and call nothing.
recorder_calls_llm(e) ==
    IF e.k \in {"deep", "super"} THEN <<Call("get_response", e.a, "")>> ELSE <<>>

recorder_calls(e) == <<>>

RECURSIVE calls_recording(_)
calls_recording(es) ==
    IF es = <<>> THEN <<>>
    ELSE recorder_calls(Head(es)) \o calls_recording(Tail(es))

\* the dependency calls of a run() in thinking mode `mode`, in order: those
\* of run's own recordings, the delegation and those of the handler
run_calls(mode, task, deleg, h) ==
    calls_recording(run_before_handler(mode, deleg))
        \o <<Call("delegate_task", task,
                  delegate_task(deleg.fails, deleg.text).specialist)>>
        \o h.calls
        \o (IF h.raised THEN <<>> ELSE calls_recording(run_after_handler(mode)))

\* what a run() in thinking mode `mode` does apart from recording its trace:
\* the specialist, the calls, the result and the task record.  The handlers
\* do not read self.thinking_mode.
run_control(mode, task, deleg, h) ==
    [specialist |-> delegate_task(deleg.fails, deleg.text).specialist,
     handler |-> handler_of(deleg),
     reasoning |-> delegate_task(deleg.fails, deleg.text).reasoning,
     calls |-> run_calls(mode, task, deleg, h),
     raised |-> h.raised,
     result |-> IF h.raised THEN None ELSE Some(h.result),
     current_task |-> h.current_task,
     appended |-> h.appended]

\* a handler as run() calls it when the clock reads `now`
Called(now, Handler(_)) == Handler(now)

\* the delegation answers for which run() dispatches `handler`
DelegationsTo(handler) == { deleg \in Delegations : handler_of(deleg) = handler }

\* a run() can be called on the instance
CanRun == pc \in {"idle", "returned", "raised"} /\ runs < MaxRuns

\* AgentWorkflow.run(task) whose handler does `h`: the handler's exception
\* leaves run() through TerminalCapture.__exit__; otherwise run() appends
\* the result to the messages and returns it with the trace snapshot.
run_as(task, deleg, h) ==
    LET begun == start_thinking(thinking, clock, task, self_thinking_mode)
        delegated == record_calls(begun, clock, run_before_handler(self_thinking_mode, deleg))
        handled == record_calls(delegated, clock, h.trace)
        finished == record_calls(handled, clock + 1, run_after_handler(self_thinking_mode))
    IN /\ user_input' = task
       /\ started' = clock
       /\ clock' = clock + 2
       /\ runs' = runs + 1
       /\ call_log' = run_calls(self_thinking_mode, task, deleg, h)
       /\ in_mode' = [mode \in ThinkingModes |-> run_control(mode, task, deleg, h)]
       /\ current_task' = h.current_task
       /\ tasks' = tasks \o h.appended
       /\ IF h.raised
          THEN /\ pc' = "raised"
               /\ escaped' = h.exception
               /\ messages' = Append(messages, HumanMessage(task))
               /\ thinking' = handled
               /\ returned' = None
          ELSE /\ pc' = "returned"
               /\ escaped' = ""
               /\ messages' = messages \o <<HumanMessage(task), AIMessage(h.result)>>
               /\ thinking' = finished
               /\ returned' = Some([result |-> h.result,
                                    thinking |-> get_summary(finished, clock + 1)])
       /\ UNCHANGED <<self_thinking_mode, dvars, tvars, svars, fvars, ivars, cvars, pvars, gvars, rvars>>

\* result = self._process_..._task(user_input), and the rest of run()
run(task, deleg, handled) == Assign(handled, LAMBDA h : run_as(task, deleg, h))

Init ==
    /\ pc = "idle"
    /\ user_input = ""
    /\ self_thinking_mode \in ThinkingModes
    /\ messages = <<>>
    /\ tasks = <<>>
    /\ current_task = None
    /\ thinking = new_thinking(0, self_thinking_mode)
    /\ returned = None
    /\ escaped = ""
    /\ call_log = <<>>
    /\ clock = 0
    /\ started = 0
    /\ runs = 0
    /\ in_mode = <<>>
    /\ DIdle
    /\ TIdle
    /\ SIdle
    /\ FIdle
    /\ IIdle
    /\ CIdle
    /\ PIdle
    /\ GIdle
    /\ RIdle

\* run(task) when the Delegator names the Researcher
RunResearcher ==
    /\ CanRun
    /\ \E deleg \in DelegationsTo("researcher"), task \in PlainTasks,
          found \in Searches, ans \in Answers :
           run(task, deleg,
               Called(clock, LAMBDA now : process_researcher_task(task, now, found, ans)))

\* run(task) when the Delegator names the Coder
RunCoder ==
    /\ CanRun
    /\ \E deleg \in DelegationsTo("coder"), task \in PlainTasks, w \in Programs,
          run1 \in Executions, a1 \in Answers, d \in Fixes, run2 \in Executions,
          a2 \in Answers :
           run(task, deleg,
               Called(clock, LAMBDA now :
                   process_coder_task(task, now, w, run1, a1, d, run2, a2)))

\* run(task) when the Delegator names the FileManager
RunFileManager ==
    /\ CanRun
    /\ \E deleg \in DelegationsTo("file_manager"), task \in FileManagerTasks,
          x \in FileAnswers, f \in Answers, r \in Reviews, fs \in FileSystems :
           run(task, deleg,
               Called(clock, LAMBDA now :
                   process_file_manager_task(task, now, x, f, r, WriteOutcome(fs),
                                             fs, fs)))

\* run(task) when the Delegator names the Browser
RunBrowser ==
    /\ CanRun
    /\ \E deleg \in DelegationsTo("browser"), task \in BrowserTasks,
          x \in BrowserAnswers, a \in Answers, found \in Searches, nav \in Navigations :
           run(task, deleg,
               Called(clock, LAMBDA now :
                   process_browser_task(task, now, x, a, found, nav)))

\* run(task) when the Delegator names the Sandbox
RunSandbox ==
    /\ CanRun
    /\ \E deleg \in DelegationsTo("sandbox"), task \in SandboxTasks,
          x \in SandboxAnswers, a \in Answers, sb \in Sandboxes,
          env \in Environments :
           run(task, deleg,
               Called(clock, LAMBDA now :
                   process_sandbox_task(task, now, x, a, sb, env.io, env.proc)))

\* run(task) when the Delegator names no specialist
RunSupervisor ==
    /\ CanRun
    /\ \E deleg \in DelegationsTo("supervisor"), task \in PlainTasks, ans \in Answers :
           run(task, deleg,
               Called(clock, LAMBDA now : process_supervisor_task(task, now, ans)))

\* run_agent_workflow / AgentWorkflow(...): the caller builds a new instance
NewWorkflow ==
    /\ pc \in {"returned", "raised"}
    /\ runs < MaxRuns
    /\ pc' = "idle"
    /\ user_input' = ""
    /\ self_thinking_mode' \in ThinkingModes
    /\ messages' = <<>>
    /\ tasks' = <<>>
    /\ current_task' = None
    /\ thinking' = new_thinking(clock, self_thinking_mode')
    /\ returned' = None
    /\ escaped' = ""
    /\ call_log' = <<>>
    /\ started' = clock
    /\ in_mode' = <<>>
    /\ UNCHANGED <<clock, runs, dvars, tvars, svars, fvars, ivars, cvars, pvars, gvars, rvars>>

Next ==
    \/ RunResearcher
    \/ RunCoder
    \/ RunFileManager
    \/ RunBrowser
    \/ RunSandbox
    \/ RunSupervisor
    \/ NewWorkflow

Spec == Init /\ [][Next]_vars

--------------------------------------------------------------------------
(* Sandbox harness: any sequence of up to MaxSandboxOps calls on one        *)
(* Sandbox, each with its arguments, the outcome `io` of the OS calls it    *)
(* makes and, for the two execute methods, the child process.               *)

MaxSandboxOps == 2

\* relative paths, a path with a ".." component and an absolute path
SandboxPaths == { "", "a.txt", "d", "d/b.txt", "../x.txt", "/tmp/y.txt" }
Transfers ==
    { <<"a.txt", "d/b.txt">>, <<"a.txt", "d">>, <<"a.txt", "a.txt">>,
      <<"d", "e">>, <<"x.txt", "y.txt">>, <<"a.txt", "../x.txt">> }
Patterns == { "*.txt", "d/*", "*.md" }
IOs == { "ok", "oserror" }
NoProcess ==
    [spawned |-> FALSE, seconds |-> 0, returncode |-> 0, stdout |-> "", stderr |-> ""]

SInit ==
    /\ sSandbox \in { new_sandbox(EmptyDisk), new_sandbox(UsedDisk) }
    /\ sLast = NoCall
    /\ sOps = 0
    /\ DIdle
    /\ TIdle
    /\ WIdle
    /\ FIdle
    /\ IIdle
    /\ CIdle
    /\ PIdle
    /\ GIdle
    /\ RIdle

\* the caller's view of one call: what it passed, what the environment did,
\* and what came back
SCalled(op, args, io, proc, out) ==
    /\ sSandbox' = out.sb
    /\ sLast' = [op |-> op, args |-> args, io |-> io, proc |-> proc,
                 raised |-> out.raised, caught |-> out.caught,
                 timed_out |-> HasKey(out, "timed_out") /\ out.timed_out,
                 started |-> HasKey(out, "started") /\ out.started,
                 result |-> out.result]
    /\ sOps' = sOps + 1
    /\ UNCHANGED <<dvars, tvars, wvars, fvars, ivars, cvars, pvars, gvars, rvars>>

SCreateFile ==
    /\ sOps < MaxSandboxOps
    /\ \E filename \in SandboxPaths, io \in IOs :
           SCalled("create_file", <<filename, "hello">>, io, NoProcess,
                   sandbox_create_file(sSandbox, filename, "hello", io))

SReadFile ==
    /\ sOps < MaxSandboxOps
    /\ \E filename \in SandboxPaths, io \in IOs :
           SCalled("read_file", <<filename>>, io, NoProcess,
                   sandbox_read_file(sSandbox, filename, io))

SListFiles ==
    /\ sOps < MaxSandboxOps
    /\ \E io \in IOs :
           SCalled("list_files", <<>>, io, NoProcess,
                   sandbox_list_files(sSandbox, io))

SDeleteFile ==
    /\ sOps < MaxSandboxOps
    /\ \E filename \in SandboxPaths, io \in IOs :
           SCalled("delete_file", <<filename>>, io, NoProcess,
                   sandbox_delete_file(sSandbox, filename, io))

\* clean: when an os.remove fails, any of the files may have been removed
\* before it, but not all of them
RemovedBeforeFailure(disk) ==
    ((SUBSET FilesUnder(disk, workspace_dir)) \ { FilesUnder(disk, workspace_dir) })
        \cup { {} }

SClean ==
    /\ sOps < MaxSandboxOps
    /\ \E io \in IOs :
       \E removed \in RemovedBeforeFailure(sSandbox.disk) :
           SCalled("clean", <<>>, io, NoProcess,
                   sandbox_clean(sSandbox, io, removed))

SListDirectory ==
    /\ sOps < MaxSandboxOps
    /\ \E path \in SandboxPaths, io \in IOs :
           SCalled("list_directory", <<path>>, io, NoProcess,
                   sandbox_list_directory(sSandbox, path, io))

SCreateDirectory ==
    /\ sOps < MaxSandboxOps
    /\ \E path \in SandboxPaths, io \in IOs :
           SCalled("create_directory", <<path>>, io, NoProcess,
                   sandbox_create_directory(sSandbox, path, io))

SCopyFile ==
    /\ sOps < MaxSandboxOps
    /\ \E t \in Transfers, io \in IOs :
           SCalled("copy_file", t, io, NoProcess,
                   sandbox_copy_file(sSandbox, t[1], t[2], io))

SMoveFile ==
    /\ sOps < MaxSandboxOps
    /\ \E t \in Transfers, io \in IOs :
           SCalled("move_file", t, io, NoProcess,
                   sandbox_move_file(sSandbox, t[1], t[2], io))

SFindFiles ==
    /\ sOps < MaxSandboxOps
    /\ \E pattern \in Patterns, io \in IOs :
           SCalled("find_files", <<pattern>>, io, NoProcess,
                   sandbox_find_files(sSandbox, pattern, io))

SGetFileInfo ==
    /\ sOps < MaxSandboxOps
    /\ \E path \in SandboxPaths, io \in IOs :
           SCalled("get_file_info", <<path>>, io, NoProcess,
                   sandbox_get_file_info(sSandbox, path, io))

SExecutePython ==
    /\ sOps < MaxSandboxOps
    /\ \E io \in IOs, proc \in ChildProcesses :
           SCalled("execute_python", <<"print(1)">>, io, proc,
                   sandbox_execute_python(sSandbox, "print(1)", io, proc))

SExecuteCommand ==
    /\ sOps < MaxSandboxOps
    /\ \E proc \in ChildProcesses :
           SCalled("execute_command", <<"sleep 31">>, "ok", proc,
                   sandbox_execute_command(sSandbox, "sleep 31", proc))

SNext ==
    \/ SCreateFile
    \/ SReadFile
    \/ SListFiles
    \/ SDeleteFile
    \/ SClean
    \/ SListDirectory
    \/ SCreateDirectory
    \/ SCopyFile
    \/ SMoveFile
    \/ SFindFiles
    \/ SGetFileInfo
    \/ SExecutePython
    \/ SExecuteCommand

SpecSandbox == SInit /\ [][SNext]_vars

--------------------------------------------------------------------------
(* FileOperations harness: any sequence of up to MaxFileOps calls of        *)
(* FileOperations.write_file and FileManagerAgent.create_file on one        *)
(* FileOperations object.  The size cap is configuration (FILE_CONFIG): the *)
(* object is built with the shipped cap or with a cap of SmallCap           *)
(* characters, so that contents over the cap are among the inputs.          *)

MaxFileOps == 2
SmallCap == 3

\* allowed and disallowed extensions, no extension, relative and absolute
FilePaths == { "notes/a.txt", "run.exe", "output/b.md", "/data/c.py", "tools/noext" }
FileContents == { "hi", "hello" }

FInit ==
    /\ fFiles \in { new_file_operations(max_file_size), new_file_operations(SmallCap) }
    /\ fLast = NoCall
    /\ fOps = 0
    /\ DIdle
    /\ TIdle
    /\ WIdle
    /\ SIdle
    /\ IIdle
    /\ CIdle
    /\ PIdle
    /\ GIdle
    /\ RIdle

\* file_operations.write_file(file_path, content)
FWriteFile ==
    /\ fOps < MaxFileOps
    /\ \E file_path \in FilePaths, content \in FileContents, io \in IOs :
           Assign(file_operations_write_file(fFiles.disk, file_path, content, io),
                  LAMBDA out :
           /\ fFiles' = [fFiles EXCEPT !.disk = out.disk]
           /\ fLast' = [op |-> "write_file", file_path |-> file_path,
                        content |-> content, io |-> io, before |-> fFiles.disk,
                        result |-> out.result])
    /\ fOps' = fOps + 1
    /\ UNCHANGED <<dvars, tvars, wvars, svars, ivars, cvars, pvars, gvars, rvars>>

\* FileManagerAgent.create_file(content, file_path, file_type)
FCreateFile ==
    /\ fOps < MaxFileOps
    /\ \E file_path \in FilePaths, file_type \in { None },
          r \in Reviews, io \in IOs :
           Assign(fm_create_file_on(fFiles.disk, "hello", file_path, file_type,
                                    Ans("# hello"), r, io), LAMBDA out :
           /\ fFiles' = [fFiles EXCEPT !.disk = out.disk]
           /\ fLast' = [op |-> "create_file", file_path |-> file_path,
                        content |-> out.result.content, io |-> io,
                        before |-> fFiles.disk, result |-> out.result])
    /\ fOps' = fOps + 1
    /\ UNCHANGED <<dvars, tvars, wvars, svars, ivars, cvars, pvars, gvars, rvars>>

FNext ==
    \/ FWriteFile
    \/ FCreateFile

SpecFiles == FInit /\ [][FNext]_vars

--------------------------------------------------------------------------
(* Two Orchestrators: two AgentWorkflow objects in one process.  Each has   *)
(* its own SandboxAgent (agent_workflow.py:35), and every SandboxAgent      *)
(* calls the module's one Sandbox object (sandbox_agent.py:7,               *)
(* sandbox.py:404), whose root is the fixed directory of Sandbox.__init__.  *)
(* Their calls interleave in any order.                                     *)

MaxSharedOps == 3

Orchestrators == { 1, 2 }
SharedNames == { "a.txt", "b.txt" }

IInit ==
    /\ iSandbox = new_sandbox(EmptyDisk)
    /\ iOwner = <<>>
    /\ iLast = NoCall
    /\ iOps = 0
    /\ DIdle
    /\ TIdle
    /\ WIdle
    /\ SIdle
    /\ FIdle
    /\ CIdle
    /\ PIdle
    /\ GIdle
    /\ RIdle

\* the owners of the files that are still on the disk, with `who` the owner
\* of every file in `made`
Owners(disk, made, who) ==
    [q \in { f \in DOMAIN iOwner \cup made : f \in DOMAIN disk /\ disk[f].kind = "file" } |->
        IF q \in made THEN who ELSE iOwner[q]]

\* one call of Orchestrator `who` on the Sandbox; `made` are the files the
\* call created
ICalled(who, op, args, out, made) ==
    /\ iSandbox' = out.sb
    /\ iOwner' = Owners(out.sb.disk, made, who)
    /\ iLast' = [who |-> who, op |-> op, args |-> args, before |-> iSandbox.disk,
                 owners |-> iOwner, result |-> out.result]
    /\ iOps' = iOps + 1
    /\ UNCHANGED <<dvars, tvars, wvars, svars, fvars, cvars, pvars, gvars, rvars>>

ICreateFile ==
    /\ iOps < MaxSharedOps
    /\ \E who \in Orchestrators, filename \in SharedNames, io \in IOs :
           LET out == sandbox_create_file(iSandbox, filename, "from " \o Str(who), io) IN
           ICalled(who, "create_file", <<filename>>, out,
                   IF out.result.status = "success"
                   THEN { normpath(out.result.file_path) } ELSE {})

IReadFile ==
    /\ iOps < MaxSharedOps
    /\ \E who \in Orchestrators, filename \in SharedNames, io \in IOs :
           ICalled(who, "read_file", <<filename>>,
                   sandbox_read_file(iSandbox, filename, io), {})

IListFiles ==
    /\ iOps < MaxSharedOps
    /\ \E who \in Orchestrators, io \in IOs :
           ICalled(who, "list_files", <<>>, sandbox_list_files(iSandbox, io), {})

IDeleteFile ==
    /\ iOps < MaxSharedOps
    /\ \E who \in Orchestrators, filename \in SharedNames, io \in IOs :
           ICalled(who, "delete_file", <<filename>>,
                   sandbox_delete_file(iSandbox, filename, io), {})

IClean ==
    /\ iOps < MaxSharedOps
    /\ \E who \in Orchestrators, io \in IOs :
       \E removed \in RemovedBeforeFailure(iSandbox.disk) :
           ICalled(who, "clean", <<>>, sandbox_clean(iSandbox, io, removed), {})

INext ==
    \/ ICreateFile
    \/ IReadFile
    \/ IListFiles
    \/ IDeleteFile
    \/ IClean

SpecShared == IInit /\ [][INext]_vars

--------------------------------------------------------------------------
(* Terminal capture harness: run enters TerminalCapture, texts are written  *)
(* to sys.stdout and sys.stderr, and run leaves it.  sys.stdout and         *)
(* sys.stderr are streams of the process when run begins.                   *)

MaxWrites == 3

StreamNames == { "stdout", "stderr" }
Written == { "Using local Ollama\n", "warn", "\n", "  " }

CInit ==
    /\ cEntered = FALSE
    /\ cStreams = [stdout |-> NoStream, stderr |-> NoStream]
    /\ cThinking \in { new_thinking(0, m) : m \in ThinkingModes }
    /\ cClock = 0
    /\ cLast = NoCall
    /\ cOps = 0
    /\ DIdle
    /\ TIdle
    /\ WIdle
    /\ SIdle
    /\ FIdle
    /\ IIdle
    /\ PIdle
    /\ GIdle
    /\ RIdle

\* time passes
CTick ==
    /\ cClock < MaxClock
    /\ cClock' = cClock + 1
    /\ UNCHANGED <<cEntered, cStreams, cThinking, cLast, cOps,
                   dvars, tvars, wvars, svars, fvars, ivars, pvars, gvars, rvars>>

\* run: TerminalCapture(capture_terminal_output).__enter__(), then
\* start_thinking
CEnter ==
    /\ ~cEntered
    /\ cEntered' = TRUE
    /\ cStreams' = [n \in StreamNames |-> [cStreams[n] EXCEPT !.capture = ""]]
    /\ cThinking' = start_thinking(cThinking, cClock, "task", cThinking.thinking_mode)
    /\ cLast' = [op |-> "enter"]
    /\ UNCHANGED <<cClock, cOps, dvars, tvars, wvars, svars, fvars, ivars, pvars, gvars, rvars>>

\* sys.<stream>.write(text) inside the with block: CaptureStream.write
CWrite ==
    /\ cEntered
    /\ cOps < MaxWrites
    /\ \E n \in StreamNames, text \in Written :
           LET w == CaptureStream_write(cStreams[n], text) IN
           /\ cStreams' = [cStreams EXCEPT ![n] = w.stream]
           /\ cThinking' = record_calls(cThinking, cClock, w.callback)
           /\ cLast' = [op |-> "write", stream |-> n, text |-> text]
    /\ cOps' = cOps + 1
    /\ UNCHANGED <<cEntered, cClock, dvars, tvars, wvars, svars, fvars, ivars, pvars, gvars, rvars>>

\* sys.<stream>.write(text) outside a run: the real stream's own write
CWriteOutside ==
    /\ ~cEntered
    /\ cOps < MaxWrites
    /\ \E n \in StreamNames, text \in Written :
           /\ cStreams' = [cStreams EXCEPT ![n].original = Append(@, text)]
           /\ cLast' = [op |-> "write_outside", stream |-> n, text |-> text]
    /\ cOps' = cOps + 1
    /\ UNCHANGED <<cEntered, cThinking, cClock, dvars, tvars, wvars, svars, fvars, ivars, pvars, gvars, rvars>>

\* TerminalCapture.__exit__ at the end of run
CExit ==
    /\ cEntered
    /\ cEntered' = FALSE
    /\ cLast' = [op |-> "exit"]
    /\ UNCHANGED <<cStreams, cThinking, cClock, cOps,
                   dvars, tvars, wvars, svars, fvars, ivars, pvars, gvars, rvars>>

CNext ==
    \/ CTick
    \/ CEnter
    \/ CWrite
    \/ CWriteOutside
    \/ CExit

SpecCapture == CInit /\ [][CNext]_vars

--------------------------------------------------------------------------
(* One run() of AgentWorkflow, call by call.  The run is the one of Spec:   *)
(* the same handlers with the same inputs decide which dependency calls it  *)
(* makes and how it ends.  Here each call is a step of its own, taken when  *)
(* the call returns: Idle, Delegating (delegate_task is under way),         *)
(* Executing (the handler is under way), then Completed, or Raised when an  *)
(* exception leaves the handler.                                            *)

\* the calls left to make after the first of them has returned
same_call_again(pending) == pending

after_call(pending) == Tail(pending)

PInit ==
    /\ pPhase = "idle"
    /\ pPending = <<>>
    /\ pMade = <<>>
    /\ pOutcome = NoCall
    /\ DIdle
    /\ TIdle
    /\ WIdle
    /\ SIdle
    /\ FIdle
    /\ IIdle
    /\ CIdle
    /\ GIdle
    /\ RIdle

\* run(task) is called: start_thinking and the first thoughts, up to the
\* call of delegate_task
begin_run(task, deleg, h) ==
    /\ pPhase = "idle"
    /\ pPhase' = "delegating"
    /\ \E mode \in ThinkingModes : pPending' = run_calls(mode, task, deleg, h)
    /\ pMade' = <<>>
    /\ pOutcome' = [raised |-> h.raised, handler |-> handler_of(deleg),
                    result |-> IF h.raised THEN None ELSE Some(h.result)]
    /\ UNCHANGED <<dvars, tvars, wvars, svars, fvars, ivars, cvars, gvars, rvars>>

PBegin(task, deleg, handled) == Assign(handled, LAMBDA h : begin_run(task, deleg, h))

PRunResearcher ==
    \E deleg \in DelegationsTo("researcher"), task \in PlainTasks,
       found \in Searches, ans \in Answers :
        PBegin(task, deleg,
               Called(0, LAMBDA now : process_researcher_task(task, now, found, ans)))

PRunCoder ==
    \E deleg \in DelegationsTo("coder"), task \in PlainTasks, w \in Programs,
       run1 \in Executions, a1 \in Answers, d \in Fixes, run2 \in Executions,
       a2 \in Answers :
        PBegin(task, deleg,
               Called(0, LAMBDA now :
                   process_coder_task(task, now, w, run1, a1, d, run2, a2)))

PRunFileManager ==
    \E deleg \in DelegationsTo("file_manager"), task \in FileManagerTasks,
       x \in FileAnswers, f \in Answers, r \in Reviews, fs \in FileSystems :
        PBegin(task, deleg,
               Called(0, LAMBDA now :
                   process_file_manager_task(task, now, x, f, r, WriteOutcome(fs),
                                             fs, fs)))

PRunBrowser ==
    \E deleg \in DelegationsTo("browser"), task \in BrowserTasks,
       x \in BrowserAnswers, a \in Answers, found \in Searches, nav \in Navigations :
        PBegin(task, deleg,
               Called(0, LAMBDA now : process_browser_task(task, now, x, a, found, nav)))

PRunSandbox ==
    \E deleg \in DelegationsTo("sandbox"), task \in SandboxTasks,
       x \in SandboxAnswers, a \in Answers, sb \in Sandboxes, env \in Environments :
        PBegin(task, deleg,
               Called(0, LAMBDA now :
                   process_sandbox_task(task, now, x, a, sb, env.io, env.proc)))

PRunSupervisor ==
    \E deleg \in DelegationsTo("supervisor"), task \in PlainTasks, ans \in Answers :
        PBegin(task, deleg,
               Called(0, LAMBDA now : process_supervisor_task(task, now, ans)))

\* delegate_task returns: run records the plan and dispatches the handler
PDelegated ==
    /\ pPhase = "delegating"
    /\ pPhase' = "executing"
    /\ pMade' = Append(pMade, Head(pPending))
    /\ pPending' = after_call(pPending)
    /\ UNCHANGED <<pOutcome, dvars, tvars, wvars, svars, fvars, ivars, cvars, gvars, rvars>>

\* the next dependency call of the handler returns
PCallReturns ==
    /\ pPhase = "executing"
    /\ pPending # <<>>
    /\ pMade' = Append(pMade, Head(pPending))
    /\ pPending' = after_call(pPending)
    /\ UNCHANGED <<pPhase, pOutcome, dvars, tvars, wvars, svars, fvars, ivars, cvars, gvars, rvars>>

\* the handler returns its result, and run returns
PCompleted ==
    /\ pPhase = "executing"
    /\ pPending = <<>>
    /\ ~pOutcome.raised
    /\ pPhase' = "completed"
    /\ UNCHANGED <<pPending, pMade, pOutcome,
                   dvars, tvars, wvars, svars, fvars, ivars, cvars, gvars, rvars>>

\* an exception leaves the handler, and run
PRaised ==
    /\ pPhase = "executing"
    /\ pPending = <<>>
    /\ pOutcome.raised
    /\ pPhase' = "raised"
    /\ UNCHANGED <<pPending, pMade, pOutcome,
                   dvars, tvars, wvars, svars, fvars, ivars, cvars, gvars, rvars>>

PNext ==
    \/ PRunResearcher
    \/ PRunCoder
    \/ PRunFileManager
    \/ PRunBrowser
    \/ PRunSandbox
    \/ PRunSupervisor
    \/ PDelegated
    \/ PCallReturns
    \/ PCompleted
    \/ PRaised

SpecPhases == PInit /\ [][PNext]_vars

\* every dependency call returns, and Python goes on to the next statement
LiveSpecPhases ==
    /\ SpecPhases
    /\ WF_vars(PDelegated)
    /\ WF_vars(PCallReturns)
    /\ WF_vars(PCompleted)
    /\ WF_vars(PRaised)

--------------------------------------------------------------------------
(* Two runs in two threads of one process (one Streamlit session each),    *)
(* each with its own AgentWorkflow and its own TerminalCapture.  sys.stdout *)
(* and sys.stderr are attributes of the one module sys; a thread switch can *)
(* come between any two statements of __enter__ and __exit__.  A stream is  *)
(* the chain of the CaptureStreams a write passes through, outermost       *)
(* first, each named by the thread whose callback it calls: <<>> is the     *)
(* process's real stream, <<2, 1>> the CaptureStream of thread 2 whose      *)
(* original_stream is the CaptureStream of thread 1 over the real stream.   *)

MaxThreadWrites == 2
Threads == {1, 2}

\* self.original_stdout = None
NotSaved == <<0>>

\* TerminalCapture.CaptureStream(capture, original_stream, callback)
CaptureStream(thread, original_stream) == <<thread>> \o original_stream

\* <stream>.write(text) by thread `writer`: what each thread's callback
\* records; CaptureStream.write passes the text on to its original stream
RecordedBy(stream, thread, writer, text) ==
    IF \E i \in 1..Len(stream) : stream[i] = thread
    THEN [e \in 1..Len(capture_write(text)) |->
              [writer |-> writer, event |-> capture_write(text)[e]]]
    ELSE <<>>

GInit ==
    /\ gSys = [stdout |-> <<>>, stderr |-> <<>>]
    /\ gRun = [t \in Threads |->
                  [pc |-> "idle", original_stdout |-> NotSaved,
                   original_stderr |-> NotSaved, recorded |-> <<>>]]
    /\ gOps = 0
    /\ DIdle
    /\ TIdle
    /\ WIdle
    /\ SIdle
    /\ FIdle
    /\ IIdle
    /\ CIdle
    /\ PIdle
    /\ RIdle

\* __enter__: self.original_stdout = sys.stdout
GSaveStdout(t) ==
    /\ gRun[t].pc = "idle"
    /\ gRun' = [gRun EXCEPT ![t].pc = "saved_stdout",
                            ![t].original_stdout = gSys.stdout]
    /\ UNCHANGED <<gSys, gOps, dvars, tvars, wvars, svars, fvars, ivars, cvars, pvars, rvars>>

\* __enter__: self.original_stderr = sys.stderr
GSaveStderr(t) ==
    /\ gRun[t].pc = "saved_stdout"
    /\ gRun' = [gRun EXCEPT ![t].pc = "saved_stderr",
                            ![t].original_stderr = gSys.stderr]
    /\ UNCHANGED <<gSys, gOps, dvars, tvars, wvars, svars, fvars, ivars, cvars, pvars, rvars>>

\* __enter__: sys.stdout = self.CaptureStream(..., self.original_stdout, ...)
GInstallStdout(t) ==
    /\ gRun[t].pc = "saved_stderr"
    /\ gSys' = [gSys EXCEPT !.stdout = CaptureStream(t, gRun[t].original_stdout)]
    /\ gRun' = [gRun EXCEPT ![t].pc = "installed_stdout"]
    /\ UNCHANGED <<gOps, dvars, tvars, wvars, svars, fvars, ivars, cvars, pvars, rvars>>

\* __enter__: sys.stderr = self.CaptureStream(..., self.original_stderr, ...)
GInstallStderr(t) ==
    /\ gRun[t].pc = "installed_stdout"
    /\ gSys' = [gSys EXCEPT !.stderr = CaptureStream(t, gRun[t].original_stderr)]
    /\ gRun' = [gRun EXCEPT ![t].pc = "running"]
    /\ UNCHANGED <<gOps, dvars, tvars, wvars, svars, fvars, ivars, cvars, pvars, rvars>>

\* the run of thread t writes to sys.<n> inside its with block
GWrite(t) ==
    /\ gRun[t].pc = "running"
    /\ gOps < MaxThreadWrites
    /\ \E n \in StreamNames, text \in {"warn", "\n"} :
           gRun' = [u \in Threads |->
                       [gRun[u] EXCEPT !.recorded =
                            @ \o RecordedBy(gSys[n], u, t, text)]]
    /\ gOps' = gOps + 1
    /\ UNCHANGED <<gSys, dvars, tvars, wvars, svars, fvars, ivars, cvars, pvars, rvars>>

\* __exit__: sys.stdout = self.original_stdout
GRestoreStdout(t) ==
    /\ gRun[t].pc = "running"
    /\ gSys' = [gSys EXCEPT !.stdout = gRun[t].original_stdout]
    /\ gRun' = [gRun EXCEPT ![t].pc = "restored_stdout"]
    /\ UNCHANGED <<gOps, dvars, tvars, wvars, svars, fvars, ivars, cvars, pvars, rvars>>

\* __exit__: sys.stderr = self.original_stderr
GRestoreStderr(t) ==
    /\ gRun[t].pc = "restored_stdout"
    /\ gSys' = [gSys EXCEPT !.stderr = gRun[t].original_stderr]
    /\ gRun' = [gRun EXCEPT ![t].pc = "done"]
    /\ UNCHANGED <<gOps, dvars, tvars, wvars, svars, fvars, ivars, cvars, pvars, rvars>>

GNext ==
    \E t \in Threads :
        \/ GSaveStdout(t)
        \/ GSaveStderr(t)
        \/ GInstallStdout(t)
        \/ GInstallStderr(t)
        \/ GWrite(t)
        \/ GRestoreStdout(t)
        \/ GRestoreStderr(t)

SpecThreads == GInit /\ [][GNext]_vars

--------------------------------------------------------------------------
(* PythonREPL.execute.  A source text is given by what Python makes of it:  *)
(* whether it parses, and as an expression or as statements; the modules    *)
(* its import statements name; what one run of it prints; and how a run of  *)
(* it ends: it returns, it raises an Exception every time, it raises an     *)
(* Exception the first time only (its own side effects on self.locals make  *)
(* the second run pass), or it calls sys.exit().  `slow` says whether the   *)
(* call takes the timeout or longer.                                        *)

MaxReplOps == 2

allowed_modules ==
    { "requests", "bs4", "pandas", "numpy", "matplotlib", "datetime", "json", "re",
      "os", "sys", "math", "random", "time", "collections", "itertools", "functools" }

REPL_TIMEOUT == 60

Source(syntax, imports, prints, ends) ==
    [syntax |-> syntax, imports |-> imports, prints |-> prints, ends |-> ends]

\* an expression holds no import statement
Sources ==
    { Source("invalid", <<>>, "", "returns") }
        \cup { Source("expression", <<>>, prints, ends) :
                  prints \in {"", "1\n"},
                  ends \in {"returns", "raises", "raises_once", "exits"} }
        \cup { Source("statements", imports, prints, ends) :
                  imports \in { <<>>, <<"math">>, <<"subprocess">>,
                                <<"math", "subprocess">> },
                  prints \in {"", "1\n"},
                  ends \in {"returns", "raises", "exits"} }

\* the first module of the import statements that is not allowed, if any
RECURSIVE first_disallowed(_)
first_disallowed(imports) ==
    IF imports = <<>> THEN None
    ELSE IF Head(imports) \notin allowed_modules THEN Some(Head(imports))
    ELSE first_disallowed(Tail(imports))

\* what a call of execute gives back or raises, with the number of times the
\* code was run
Gave(status, output, error, ran) ==
    [raises |-> FALSE, exception |-> "", status |-> status, output |-> output,
     error |-> error, ran |-> ran]

\* run number `n` of the code: what it prints and how it ends
run_of(code, n) ==
    [prints |-> code.prints,
     ends |-> IF code.ends = "raises_once"
              THEN (IF n = 1 THEN "raises" ELSE "returns")
              ELSE code.ends]

\* the finally clause: past the timeout its return replaces whatever the try
\* statement was about to return or raise
repl_finally(slow, output, given) ==
    IF slow
    THEN Gave("timeout", output,
              "Execution timed out after " \o Str(REPL_TIMEOUT) \o " seconds", given.ran)
    ELSE given

\* the try statement of execute: eval(code), and exec(code) when eval raises
\* an Exception; both write to the same StringIO
repl_eval_then_exec(code, slow) ==
    LET first == run_of(code, 1)
        evaluated == code.syntax = "expression"
        ran1 == IF evaluated THEN 1 ELSE 0
        out1 == IF evaluated THEN first.prints ELSE ""
        second == run_of(code, ran1 + 1)
        out2 == out1 \o second.prints
    IN IF evaluated /\ first.ends = "returns"
       THEN repl_finally(slow, out1, Gave("success", out1, "", 1))
       ELSE IF evaluated /\ first.ends = "exits"
       THEN repl_finally(slow, out1,
                         [raises |-> TRUE, exception |-> "SystemExit", status |-> "",
                          output |-> "", error |-> "", ran |-> 1])
       ELSE IF second.ends = "returns"
       THEN repl_finally(slow, out2, Gave("success", out2, "", ran1 + 1))
       ELSE IF second.ends = "exits"
       THEN repl_finally(slow, out2,
                         [raises |-> TRUE, exception |-> "SystemExit", status |-> "",
                          output |-> "", error |-> "", ran |-> ran1 + 1])
       ELSE repl_finally(slow, out2,
                         Gave("error", out2, "ZeroDivisionError: division by zero",
                              ran1 + 1))

\* PythonREPL.execute(code)
PythonREPL_execute(code, slow) ==
    IF code.syntax = "invalid"
    THEN Gave("error", "", "Syntax error: invalid syntax", 0)
    ELSE IF first_disallowed(code.imports) # None
    THEN Gave("error", "",
              "Import of module '" \o first_disallowed(code.imports)[1]
                  \o "' is not allowed.", 0)
    ELSE repl_eval_then_exec(code, slow)

RInit ==
    /\ rLast = NoCall
    /\ rOps = 0
    /\ DIdle
    /\ TIdle
    /\ WIdle
    /\ SIdle
    /\ FIdle
    /\ IIdle
    /\ CIdle
    /\ PIdle
    /\ GIdle

\* python_repl.execute(code)
RExecute ==
    /\ rOps < MaxReplOps
    /\ \E code \in Sources, slow \in BOOLEAN :
           rLast' = [op |-> "execute", code |-> code, slow |-> slow,
                     out |-> PythonREPL_execute(code, slow)]
    /\ rOps' = rOps + 1
    /\ UNCHANGED <<dvars, tvars, wvars, svars, fvars, ivars, cvars, pvars, gvars>>

\* CoderAgent.execute_code(code): python_repl.execute, then the analysis
RExecuteCode ==
    /\ rOps < MaxReplOps
    /\ \E code \in Sources, slow \in BOOLEAN, ans \in { Ans("Hello."), Failing } :
           LET result == PythonREPL_execute(code, slow) IN
           rLast' = [op |-> "execute_code", code |-> code, slow |-> slow,
                     out |-> result,
                     returned |-> IF result.raises THEN None
                                  ELSE Some(execute_code("code", result, ans))]
    /\ rOps' = rOps + 1
    /\ UNCHANGED <<dvars, tvars, wvars, svars, fvars, ivars, cvars, pvars, gvars>>

RNext ==
    \/ RExecute
    \/ RExecuteCode

SpecRepl == RInit /\ [][RNext]_vars

--------------------------------------------------------------------------
(* C1                                                                      *)

\* C1: for every specialist branch and every outcome of the handler's
\* dependencies, AgentWorkflow.run(task) returns a result string and never
\* raises: no run ends with an exception leaving it.
C1_RunNeverRaises == pc # "raised"

--------------------------------------------------------------------------
(* C2, C3                                                                  *)

\* the positions of the calls of one operation in the log of the last run
CallsOf(op) == { i \in 1..Len(call_log) : call_log[i].op = op }

\* the last position of a non-empty set of positions
LastOf(S) == CHOOSE i \in S : \A j \in S : j <= i

\* C2: in the Coder flow debug_code is called at most once, and only when
\* the execution before it had status error; execute_code is called at most
\* twice, the second time after debug_code and with the code debug_code
\* gave; there is never a third execution.
C2_DebugOnceAfterError ==
    /\ Cardinality(CallsOf("debug_code")) <= 1
    /\ Cardinality(CallsOf("execute_code")) <= 2
    /\ \A i \in CallsOf("debug_code") :
           /\ { j \in CallsOf("execute_code") : j < i } # {}
           /\ call_log[LastOf({ j \in CallsOf("execute_code") : j < i })].out = "error"
    /\ \A j \in CallsOf("execute_code") :
           j # LastOf(CallsOf("execute_code")) \/ Cardinality(CallsOf("execute_code")) = 1
               \/ \E i \in CallsOf("debug_code") :
                      /\ i < j
                      /\ call_log[j].arg = call_log[i].out

\* A Coder run whose written code failed, was debugged once, failed again on
\* the second execution, and returned without a third execution.
C2_Witness ==
    /\ pc = "returned"
    /\ Cardinality(CallsOf("debug_code")) = 1
    /\ Cardinality(CallsOf("execute_code")) = 2
    /\ call_log[LastOf(CallsOf("execute_code"))].out = "error"

\* whether the last run debugged the code and the second execution succeeded
DebugSucceeded ==
    /\ CallsOf("debug_code") # {}
    /\ Cardinality(CallsOf("execute_code")) = 2
    /\ call_log[LastOf(CallsOf("execute_code"))].out = "success"

\* C3: the result of a returned Coder run, which is also the result of the
\* TaskRecord it appended, shows the debugged code exactly when a debug was
\* performed and the second execution succeeded, and the written code
\* otherwise; the status and the error it reports are those of the last
\* execution performed.
C3_AdoptOnlyOnSuccess ==
    (pc = "returned" /\ CallsOf("write_code") # {}) =>
        LET written == call_log[LastOf(CallsOf("write_code"))].out
            shown == IF DebugSucceeded
                     THEN call_log[LastOf(CallsOf("debug_code"))].out
                     ELSE written
            result == returned[1].result
        IN /\ StartsWith(result, "# Code Solution\n\n" \o FENCE \o "python\n" \o shown
                                     \o "\n" \o FENCE \o "\n")
           /\ tasks[Len(tasks)].result = <<result>>
           /\ CallsOf("execute_code") # {} =>
                  LET last == call_log[LastOf(CallsOf("execute_code"))] IN
                  /\ Contains(result, "\n\nStatus: " \o last.out \o "\n")
                  /\ last.error # "" =>
                         Contains(result, "Error:\n" \o FENCE \o "\n" \o last.error
                                              \o "\n" \o FENCE)

\* A returned Coder run whose debugged code still failed: the result shows
\* the written code.
C3_Witness ==
    /\ pc = "returned"
    /\ CallsOf("debug_code") # {}
    /\ Cardinality(CallsOf("execute_code")) = 2
    /\ call_log[LastOf(CallsOf("execute_code"))].out = "error"
    /\ call_log[LastOf(CallsOf("debug_code"))].out = "print(2)"
    /\ Contains(returned[1].result, "print(1)")
    /\ ~Contains(returned[1].result, "print(2)")

--------------------------------------------------------------------------
(* C4, C5                                                                  *)

\* The keyword groups of the Delegator in priority order.
KeywordGroups ==
    << [specialist |-> "researcher", keywords |-> {"researcher"}],
       [specialist |-> "coder", keywords |-> {"coder"}],
       [specialist |-> "browser", keywords |-> {"browser", "web", "website", "browse"}],
       [specialist |-> "file_manager", keywords |-> {"file manager", "file_manager"}],
       [specialist |-> "sandbox",
        keywords |-> {"sandbox", "execute", "command", "terminal", "shell"}] >>

GroupHit(text, g) == \E k \in KeywordGroups[g].keywords : Contains(Lower(text), k)

\* The specialist of the first group, in priority order, with a keyword in
\* the text; the fallback when no group has one.
FirstGroup(text) ==
    IF \E g \in 1..Len(KeywordGroups) : GroupHit(text, g)
    THEN LET g == CHOOSE g \in 1..Len(KeywordGroups) :
                     /\ GroupHit(text, g)
                     /\ \A h \in 1..(g - 1) : ~GroupHit(text, h)
         IN KeywordGroups[g].specialist
    ELSE "unknown"

\* C4: whenever the LanguageModel answers, the chosen specialist is the one
\* of the first keyword group (researcher, coder, browser, file manager,
\* sandbox) that has a keyword in the lower-cased answer, whatever later
\* groups also match; with no keyword it is the fallback.
C4_FirstGroupWins ==
    (dPc = "delegated" /\ ~dLlmFails)
        => dDecision.specialist = FirstGroup(Concat(dFrags))

\* An answer holding both "researcher" and "coder" (coder first, in capitals)
\* has been delegated to the researcher.
C4_Witness ==
    /\ dPc = "delegated"
    /\ ~dLlmFails
    /\ dFrags = <<"CODER", "researcher">>
    /\ dDecision.specialist = "researcher"

\* C5: delegate_task never raises and yields exactly one specialist; when
\* the LanguageModel call fails or the answer has no keyword the decision is
\* the fallback specialist and the Supervisor handler is dispatched.
C5_FallbackNeverRaises ==
    dPc = "delegated" =>
        /\ ~dDecision.raised
        /\ dDecision.specialist \in
               {"researcher", "coder", "browser", "file_manager", "sandbox", "unknown"}
        /\ (dLlmFails \/ \A g \in 1..Len(KeywordGroups) : ~GroupHit(Concat(dFrags), g))
               => (dDecision.specialist = "unknown" /\ dDecision.handler = "supervisor")

\* The LanguageModel call failed although the answer it would have given
\* named a specialist, and the Supervisor handler was dispatched.
C5_Witness ==
    /\ dPc = "delegated"
    /\ dLlmFails
    /\ dFrags = <<"coder">>
    /\ dDecision.specialist = "unknown"
    /\ dDecision.handler = "supervisor"

--------------------------------------------------------------------------
(* C6                                                                      *)

\* C6: every run(task) that returns has appended exactly one TaskRecord to
\* the task list, whatever the branch, and has left the records of earlier
\* runs as they were.
C6_OneRecordPerRun ==
    [][(runs' = runs + 1 /\ pc' = "returned")
           => /\ Len(tasks') = Len(tasks) + 1
              /\ SubSeq(tasks', 1, Len(tasks)) = tasks]_vars

--------------------------------------------------------------------------
(* C7                                                                      *)

\* C7: in any session, after any sequence of add operations, the event ids
\* are exactly 1..N in append order and elapsed never decreases along the
\* sequence.
C7_IdsAndElapsed ==
    /\ \A i \in 1..Len(tThinking.steps) : tThinking.steps[i].id = i
    /\ \A i \in 1..Len(tThinking.steps) : \A j \in i..Len(tThinking.steps) :
           tThinking.steps[i].elapsed <= tThinking.steps[j].elapsed

\* Three events of different kinds, the last a terminal output recorded
\* later than the first.
C7_Witness ==
    /\ Len(tThinking.steps) = 3
    /\ tThinking.steps[1].type = "thinking"
    /\ tThinking.steps[2].type = "planning"
    /\ tThinking.steps[3].type = "terminal"
    /\ tThinking.steps[3].elapsed > tThinking.steps[1].elapsed

--------------------------------------------------------------------------
(* C8                                                                      *)

\* every element of a sequence of timed entries was recorded at `since` or
\* later
AllSince(entries, since) == \A i \in 1..Len(entries) : entries[i].timestamp >= since

\* C8: the snapshot a run returns holds only what that run recorded: its
\* event ids are 1..N, its only query event is the first one and carries
\* this run's input, and no event, artifact, link, file or terminal line is
\* older than the start of the run, on a fresh instance and on a reused one.
C8_TraceIsolated ==
    pc = "returned" =>
        LET snapshot == returned[1].thinking IN
        /\ snapshot.steps # <<>>
        /\ \A i \in 1..Len(snapshot.steps) : snapshot.steps[i].id = i
        /\ \A i \in 1..Len(snapshot.steps) :
               snapshot.steps[i].type = "query" <=> i = 1
        /\ snapshot.steps[1].content.content = user_input
        /\ AllSince(snapshot.steps, started)
        /\ AllSince(snapshot.artifacts, started)
        /\ AllSince(snapshot.links, started)
        /\ AllSince(snapshot.files, started)
        /\ AllSince(snapshot.terminal_output, started)

\* The second run on a reused instance has returned, after a first run that
\* left artifacts in the recorder.
C8_Witness ==
    /\ pc = "returned"
    /\ runs = 2
    /\ Len(messages) = 4
    /\ returned[1].thinking.steps[1].id = 1
    /\ started > 0

--------------------------------------------------------------------------
(* C9, C10                                                                 *)

\* the Sandbox methods that work on the file system
FsOps ==
    { "list_directory", "create_directory", "copy_file", "move_file", "find_files",
      "get_file_info", "create_file", "read_file", "delete_file", "list_files",
      "clean" }

C10_TimeoutStatus ==
    (sLast.op \in {"execute_python", "execute_command"} /\ sLast.timed_out) =>
        /\ sLast.result.status = "timeout"
        /\ HasKey(sLast.result, "stdout")
        /\ HasKey(sLast.result, "stderr")

--------------------------------------------------------------------------
(* C11, C12                                                                *)

\* C11: whatever relative path, path with ".." components or absolute path
\* the Sandbox file-system operations are given, nothing outside the
\* sandbox root is created, overwritten, moved or deleted: the disk outside
\* the root stays as it was when the Sandbox was built.
C11_StaysInsideRoot ==
    /\ \A q \in DOMAIN sSandbox.disk :
           ~Within(q, workspace_dir) =>
               (q \in DOMAIN EmptyDisk /\ sSandbox.disk[q] = EmptyDisk[q])
    /\ \A q \in DOMAIN EmptyDisk : q \in DOMAIN sSandbox.disk

\* C12: every execute_python call that goes as far as starting the
\* subprocess has drawn an identifier that was not in the tracked-file table
\* before, has written the submitted source to a file inside the sandbox
\* root, and has registered that file under the identifier with the source
\* as its content, whether the execution then succeeds, fails or times out.
C12_TrackedBeforeRun ==
    [][(sOps' = sOps + 1 /\ sLast'.op = "execute_python" /\ sLast'.started) =>
          LET id == sLast'.result.file_id
              path == sLast'.result.file_path
          IN /\ id \notin DOMAIN sSandbox.files
             /\ id \in DOMAIN sSandbox'.files
             /\ sSandbox'.files[id].content = sLast'.args[1]
             /\ sSandbox'.files[id].path = path
             /\ Within(normpath(path), workspace_dir)
             /\ normpath(path) \in DOMAIN sSandbox'.disk
             /\ sSandbox'.disk[normpath(path)] = File(sLast'.args[1])]_vars

\* The second execute_python call on a Sandbox timed out, and its source is
\* tracked under a second identifier.
C12_Witness ==
    /\ sOps = 2
    /\ sLast.op = "execute_python"
    /\ sLast.timed_out
    /\ Cardinality(DOMAIN sSandbox.files) = 2
    /\ sLast.result.file_id \in DOMAIN sSandbox.files
    /\ sSandbox.files[sLast.result.file_id].content = "print(1)"

--------------------------------------------------------------------------
(* C13, C14                                                                *)

\* C13: FileManagerAgent.create_file with a path whose extension is not in
\* the allow-list returns a dict whose write result is an error with a
\* message, and leaves the disk as it was: no directory and no file is
\* created or changed.
C13_NoWriteOnBadExtension ==
    (fLast.op = "create_file" /\ splitext(fLast.file_path) \notin allowed_extensions)
        => /\ fLast.result.result.status = "error"
           /\ fLast.result.result.error # ""
           /\ fFiles.disk = fLast.before

\* create_file was asked for run.exe after an
\* earlier call that wrote a file, with the OS calls working: it returned
\* the error.
C13_Witness ==
    /\ fOps = 2
    /\ fLast.op = "create_file"
    /\ fLast.file_path = "run.exe"
    /\ fLast.io = "ok"
    /\ fLast.result.result.status = "error"
    /\ fFiles.disk # new_file_operations(max_file_size).disk

\* C14: a write_file call whose content is longer than the configured size
\* cap returns an error and leaves the disk as it was.
C14_OversizeRejected ==
    (fLast.op = "write_file" /\ Len(fLast.content) > fFiles.max_file_size)
        => /\ fLast.result.status = "error"
           /\ fFiles.disk = fLast.before

--------------------------------------------------------------------------
(* C15                                                                     *)

\* the files that, before the last call, belonged to the Orchestrator that
\* did not make the call
FilesOfTheOther ==
    { q \in DOMAIN iLast.owners : iLast.owners[q] # iLast.who }

\* C15: the Sandbox calls of one Orchestrator neither see nor touch the
\* files of the other: after any call, every file the other Orchestrator
\* had created is still there with the same content, and a read or a
\* listing that succeeds shows none of them.
C15_NoSharedRoot ==
    iLast.op # "none" =>
        /\ \A q \in FilesOfTheOther :
               q \in DOMAIN iSandbox.disk /\ iSandbox.disk[q] = iLast.before[q]
        /\ (iLast.op = "read_file" /\ iLast.result.status = "success")
               => normpath(iLast.result.file_path) \notin FilesOfTheOther
        /\ (iLast.op = "list_files" /\ iLast.result.status = "success")
               => \A i \in 1..Len(iLast.result.files) :
                      iLast.result.files[i].path \notin FilesOfTheOther

--------------------------------------------------------------------------
(* C16                                                                     *)

\* the last step and the last entry of the terminal log record `text`
RecordsOnce(before, after, text) ==
    /\ Len(after.steps) = Len(before.steps) + 1
    /\ SubSeq(after.steps, 1, Len(before.steps)) = before.steps
    /\ after.steps[Len(after.steps)].type = "terminal"
    /\ after.steps[Len(after.steps)].content.content = Strip(text)
    /\ Len(after.terminal_output) = Len(before.terminal_output) + 1
    /\ SubSeq(after.terminal_output, 1, Len(before.terminal_output))
           = before.terminal_output
    /\ after.terminal_output[Len(after.terminal_output)].content = Strip(text)

\* C16: a write to stdout or stderr during a run appends the text as it is
\* to the real stream, and to nothing else; when the text is not blank it
\* adds exactly one terminal step and one terminal-log entry to the trace,
\* and when it is blank it adds none.
C16_TeeOneEventPerWrite ==
    [][(cOps' = cOps + 1 /\ cLast'.op = "write") =>
         LET n == cLast'.stream
             text == cLast'.text
         IN /\ cStreams'[n].original = Append(cStreams[n].original, text)
            /\ \A m \in StreamNames \ {n} : cStreams'[m] = cStreams[m]
            /\ IF Strip(text) # ""
               THEN RecordsOnce(cThinking, cThinking', text)
               ELSE cThinking' = cThinking]_vars

\* a blank write to stderr went through to the real stream after a
\* non-blank one with surrounding white space was recorded
C16_Witness ==
    /\ cLast.op = "write"
    /\ cLast.stream = "stderr"
    /\ cLast.text = "\n"
    /\ cStreams.stderr.original = <<"Using local Ollama\n", "\n">>
    /\ Len(cThinking.terminal_output) = 1
    /\ cThinking.terminal_output[1].content = "Using local Ollama"
    /\ cThinking.steps[Len(cThinking.steps)].type = "terminal"

--------------------------------------------------------------------------
(* C17                                                                     *)

--------------------------------------------------------------------------
(* C18                                                                     *)

\* the Sandbox executions of the last run that ran into the time limit
TimedOutRuns ==
    { i \in 1..Len(call_log) :
        /\ call_log[i].op \in {"sandbox.execute_python", "sandbox.execute_command"}
        /\ call_log[i].error = TimedOutText }

\* C18: a run whose Sandbox execution ran into the time limit returns a
\* result that reports the timeout, and runs nothing a second time.
C18_TimeoutReported ==
    (pc \in {"returned", "raised"} /\ TimedOutRuns # {}) =>
        /\ pc = "returned"
        /\ Contains(Lower(returned[1].result), "timed out")
        /\ Cardinality({ i \in 1..Len(call_log) :
                           call_log[i].op \in {"sandbox.execute_python",
                                               "sandbox.execute_command"} }) = 1

--------------------------------------------------------------------------
(* C19                                                                     *)

\* the execution steps of the last run's trace that record `action`
StepsOf(action) ==
    { i \in 1..Len(thinking.steps) :
        /\ thinking.steps[i].type = "execution"
        /\ thinking.steps[i].content.action = action }

\* what the step of an extraction recorded as extracted
Extracted(i) == thinking.steps[i].content.result

\* the FileManager read branch asked for the file path
AskedForFilePath ==
    \E i \in 1..Len(thinking.steps) :
        /\ thinking.steps[i].type = "thinking"
        /\ StartsWith(thinking.steps[i].content.content, "Extracting file path...")

\* The last run was a FileManager or Sandbox run in which the extraction
\* gave no value for a field the branch needs.  A listing needs no path: it
\* lists "" (the root) or "." when none is extracted.
RequiredFieldAbsent ==
    /\ current_task # None
    /\ current_task[1].specialist \in {"file_manager", "sandbox"}
    /\ \/ \E i \in StepsOf("extract_file_info") :
              \/ Extracted(i).content_length = 0
              \/ HasKey(Extracted(i), "file_path") /\ ~Truthy(Extracted(i).file_path)
              \/ HasKey(Extracted(i), "filename") /\ ~Truthy(Extracted(i).filename)
       \/ \E i \in StepsOf("extract_file_path") : ~Truthy(Extracted(i).file_path)
       \/ AskedForFilePath /\ pc = "raised" /\ escaped = "IndexError"
       \/ StepsOf("list_directory") = {}
              /\ \E i \in StepsOf("extract_path") : Extracted(i).path = ""
       \/ \E i \in StepsOf("extract_paths") :
              ~Truthy(Extracted(i).source) \/ ~Truthy(Extracted(i).destination)
       \/ \E i \in StepsOf("extract_pattern") : Extracted(i).pattern = ""
       \/ \E i \in StepsOf("extract_code") : Extracted(i).code_length = 0
       \/ \E i \in StepsOf("extract_command") : Extracted(i).command = ""

\* C19: when the extraction gives no value for a required field, the run
\* returns a result that says what it could not extract or determine, and
\* its only dependency calls are the delegation and LanguageModel calls.
C19_MissingFieldShortCircuits ==
    (pc \in {"returned", "raised"} /\ RequiredFieldAbsent) =>
        /\ pc = "returned"
        /\ StartsWith(returned[1].result, "I couldn't ")
        /\ \A i \in 1..Len(call_log) :
               call_log[i].op \in {"delegate_task", "get_response"}

--------------------------------------------------------------------------
(* C20                                                                     *)

\* The last run was a Sandbox run whose extraction recorded the fallback
\* text of get_response as the path, the pattern, the code or the command.
FallbackExtracted ==
    /\ current_task # None
    /\ current_task[1].specialist = "sandbox"
    /\ \/ \E i \in StepsOf("extract_path") : Extracted(i).path = fallback_response
       \/ \E i \in StepsOf("extract_pattern") : Extracted(i).pattern = fallback_response
       \/ \E i \in StepsOf("extract_command") : Extracted(i).command = fallback_response
       \/ \E i \in StepsOf("extract_code") :
              Extracted(i).code_length = Len(fallback_response)

\* C20: when the LanguageModel call of a Sandbox extraction fails, the
\* fallback text is not passed on: the run returns a result that says what
\* it could not extract and calls nothing but the delegation and the
\* LanguageModel.
C20_FallbackNeverUsed ==
    (pc \in {"returned", "raised"} /\ FallbackExtracted) =>
        /\ pc = "returned"
        /\ StartsWith(returned[1].result, "I couldn't ")
        /\ \A i \in 1..Len(call_log) :
               call_log[i].op \in {"delegate_task", "get_response"}

--------------------------------------------------------------------------
(* C21                                                                     *)

\* the step of the last run's trace that holds the plan of the delegation:
\* the first planning step
FirstPlan ==
    CHOOSE i \in 1..Len(thinking.steps) :
        /\ thinking.steps[i].type = "planning"
        /\ \A j \in 1..(i - 1) : thinking.steps[j].type # "planning"

\* the thought of step i begins with `text`
ThoughtAt(i, text) ==
    /\ thinking.steps[i].type = "thinking"
    /\ StartsWith(thinking.steps[i].content.content, text)

\* step i is one of run's own before the dispatch: the query, a thought of
\* run or of the mode, or what the failing delegation printed
RecordedByRun(i) ==
    \/ thinking.steps[i].type \in {"query", "terminal"}
    \/ \E text \in {"Analyzing the user's request", "I've decided to delegate",
                     "Deep Thinking Mode activated", "Super Deep Thinking Mode activated",
                     "Deep Analysis: ", "Super Deep Analysis: "} : ThoughtAt(i, text)

ClosingThought == "Task completed. Here's the final result."

\* the closing thought, and after it nothing but the mode's elaboration
ClosesWith(i) ==
    /\ ThoughtAt(i, ClosingThought)
    /\ thinking.steps[i].content.depth = 0
    /\ \A j \in (i + 1)..Len(thinking.steps) :
           /\ thinking.steps[j].type = "thinking"
           /\ thinking.steps[j].content.depth > 0

\* the first step is the query with the task, the initial thought comes
\* before the plan, the plan holds the stripped non-blank lines of the
\* delegation's reasoning, and every step before the plan is run's own
OpensWithQueryAndPlan ==
    /\ thinking.steps[1].type = "query"
    /\ thinking.steps[1].content.content = user_input
    /\ \E p \in 1..Len(thinking.steps) : thinking.steps[p].type = "planning"
    /\ \E t \in 1..(FirstPlan - 1) : ThoughtAt(t, "Analyzing the user's request")
    /\ \A j \in 1..(FirstPlan - 1) : RecordedByRun(j)
    /\ LET plan == thinking.steps[FirstPlan].content.content
           lines == Split(in_mode[self_thinking_mode].reasoning, "\n")
           kept == { k \in 1..Len(lines) : Strip(lines[k]) # "" }
       IN /\ Len(plan) = Cardinality(kept)
          /\ \A k \in 1..Len(plan) : plan[k] # "" /\ Strip(plan[k]) = plan[k]
          /\ \A k \in kept : \E n \in 1..Len(plan) : plan[n] = Strip(lines[k])

--------------------------------------------------------------------------
(* C22                                                                     *)

PhaseRank ==
    [idle |-> 0, delegating |-> 1, executing |-> 2, completed |-> 3, raised |-> 3]

--------------------------------------------------------------------------
(* C23                                                                     *)

FileKeywordGroups ==
    << [operation |-> "create", keywords |-> {"create", "write", "save"}],
       [operation |-> "read", keywords |-> {"read", "open", "view"}],
       [operation |-> "organize", keywords |-> {"organize", "list", "directory"}] >>

FileGroupHit(text, g) ==
    \E k \in FileKeywordGroups[g].keywords : Contains(Lower(text), k)

\* the operation of the first group, in priority order, with a keyword in
\* the text, whatever its case; the Supervisor when no group has one
FirstFileGroup(text) ==
    IF \E g \in 1..Len(FileKeywordGroups) : FileGroupHit(text, g)
    THEN LET g == CHOOSE g \in 1..Len(FileKeywordGroups) :
                     /\ FileGroupHit(text, g)
                     /\ \A h \in 1..(g - 1) : ~FileGroupHit(text, h)
         IN FileKeywordGroups[g].operation
    ELSE "supervisor"

\* the thought each branch of the FileManager flow opens with
BranchThought ==
    [create |-> "This appears to be a file creation task.",
     read |-> "This appears to be a file reading task.",
     organize |-> "This appears to be a directory listing or organization task.",
     supervisor |-> "I'm not sure what file operation is being requested."]

BranchTaken(operation) ==
    \E i \in 1..Len(thinking.steps) : ThoughtAt(i, BranchThought[operation])

RanFileManager ==
    /\ pc \in {"returned", "raised"}
    /\ in_mode[self_thinking_mode].handler = "file_manager"

\* the run handed the task to the Supervisor: its record, its one call and
\* its response as the result of the run
SupervisorAnswered ==
    /\ pc = "returned"
    /\ current_task # None
    /\ current_task[1].specialist = "supervisor"
    /\ current_task[1].result = <<returned[1].result>>
    /\ Len(call_log) = 2
    /\ call_log[2] = Call("get_response", "supervisor", "")
    /\ \E i \in StepsOf("generate_response") :
           Extracted(i) = [response_length |-> Len(returned[1].result)]

\* C23: a FileManager run takes the branch of the first keyword group
\* (create/write/save, then read/open/view, then organize/list/directory)
\* that has a keyword in the lower-cased task, and no other branch; with no
\* keyword it hands the task to the Supervisor flow, whose response is the
\* result of the run.
C23_FirstFileGroupWins ==
    RanFileManager =>
        /\ \A operation \in DOMAIN BranchThought :
               BranchTaken(operation) <=> operation = FirstFileGroup(user_input)
        /\ FirstFileGroup(user_input) = "supervisor" => SupervisorAnswered

\* a task with keywords of the second and third group in upper and mixed
\* case took the read branch
C23_Witness ==
    /\ RanFileManager
    /\ FileGroupHit(user_input, 2)
    /\ FileGroupHit(user_input, 3)
    /\ ~Contains(user_input, "view")
    /\ BranchTaken("read")

\* a task with no keyword was answered by the Supervisor
C23_WitnessFallback ==
    /\ RanFileManager
    /\ FirstFileGroup(user_input) = "supervisor"
    /\ SupervisorAnswered

--------------------------------------------------------------------------
(* C24                                                                     *)

\* the status file_manager.create_file gave back, when the run called it
WriteStatuses ==
    { thinking.steps[i].content.result.status : i \in StepsOf("create_file") }

ReportsFileCreated ==
    /\ pc = "returned"
    /\ StartsWith(returned[1].result, "# File Created")

ThinksFileCreated ==
    \E i \in 1..Len(thinking.steps) : ThoughtAt(i, "File created successfully at ")

RegistersFile == thinking.files # <<>>

\* C24: a FileManager run reports '# File Created', records the thought
\* 'File created successfully' or registers a File artifact only if the
\* write it made returned status success.
C24_CreatedOnlyOnSuccess ==
    (RanFileManager /\ (ReportsFileCreated \/ ThinksFileCreated \/ RegistersFile))
        => WriteStatuses = {"success"}

--------------------------------------------------------------------------
(* C25                                                                     *)

RanCoder ==
    /\ pc \in {"returned", "raised"}
    /\ in_mode[self_thinking_mode].handler = "coder"

\* the status of the first execution the run made, that of the written code
FirstExecutionStatus ==
    LET first == CHOOSE i \in CallsOf("execute_code") :
                     \A j \in CallsOf("execute_code") : i <= j
    IN call_log[first].out

ThinksCodeSucceeded ==
    \E i \in 1..Len(thinking.steps) : ThoughtAt(i, "Code executed successfully!")

\* C25: a Coder run records the thought 'Code executed successfully!' only
\* when the execution of the written code returned status success.
C25_SuccessOnlyOnSuccess ==
    (RanCoder /\ ThinksCodeSucceeded) =>
        /\ CallsOf("execute_code") # {}
        /\ FirstExecutionStatus = "success"

--------------------------------------------------------------------------
(* C26                                                                     *)

\* C26: with two runs overlapping in one process, what a run's callback
\* records was written by that run, and once both runs have left their
\* TerminalCapture sys.stdout and sys.stderr are the process's real streams
\* again.
C26_RunsIsolated ==
    /\ \A t \in DOMAIN gRun : \A i \in 1..Len(gRun[t].recorded) :
           gRun[t].recorded[i].writer = t
    /\ (gRun # <<>> /\ \A t \in DOMAIN gRun : gRun[t].pc = "done")
           => gSys = [stdout |-> <<>>, stderr |-> <<>>]

--------------------------------------------------------------------------
(* C27                                                                     *)

\* the entry names a file that is there, inside the root, with the content
\* the table recorded for it
EntryMatchesDisk(entry) ==
    /\ Within(normpath(entry.path), workspace_dir)
    /\ isfile(sSandbox.disk, entry.path)
    /\ sSandbox.disk[normpath(entry.path)].content = entry.content

\* C27: after any sequence of Sandbox calls every entry of the tracked-file
\* table names an existing file inside the root whose content is the
\* recorded content, and no two entries name the same path.
C27_TableMatchesDisk ==
    /\ \A id \in DOMAIN sSandbox.files : EntryMatchesDisk(sSandbox.files[id])
    /\ \A id, other \in DOMAIN sSandbox.files :
           sSandbox.files[id].path = sSandbox.files[other].path => id = other

--------------------------------------------------------------------------
(* C28                                                                     *)

\* C28: one call of PythonREPL.execute runs the code at most once, and code
\* with an import of a module outside the allow-list is rejected with
\* status error without being run.
C28_RunsAtMostOnce ==
    rLast # NoCall =>
        /\ rLast.out.ran <= 1
        /\ first_disallowed(rLast.code.imports) # None =>
               /\ ~rLast.out.raises
               /\ rLast.out.status = "error"
               /\ rLast.out.ran = 0

--------------------------------------------------------------------------
(* C29                                                                     *)

OfType(artifacts, artifact_type) ==
    SelectSeq(artifacts, LAMBDA a : a.type = artifact_type)

\* the id of the latest step recorded, None when there is none
LatestStepId(th) == IF th.steps = <<>> THEN None ELSE Some(th.steps[Len(th.steps)].id)

ArtifactAdded == Len(tThinking'.artifacts) = Len(tThinking.artifacts) + 1

\* C29: the ids of the artifacts are 1..M in the order they were added, the
\* links collection holds the link artifacts and the files collection the
\* file artifacts, each in that order, and an artifact's step_id is the id
\* of the latest step recorded before it was added.
C29_ArtifactsInOrder ==
    /\ [](/\ \A i \in 1..Len(tThinking.artifacts) : tThinking.artifacts[i].id = i
          /\ tThinking.links = OfType(tThinking.artifacts, "link")
          /\ tThinking.files = OfType(tThinking.artifacts, "file"))
    /\ [][ArtifactAdded =>
            /\ SubSeq(tThinking'.artifacts, 1, Len(tThinking.artifacts))
                   = tThinking.artifacts
            /\ tThinking'.artifacts[Len(tThinking'.artifacts)].step_id
                   = LatestStepId(tThinking)]_tvars

\* a file and then a link were added after the query step
C29_Witness ==
    /\ Len(tThinking.artifacts) = 2
    /\ tThinking.artifacts[1].type = "file"
    /\ tThinking.artifacts[2].type = "link"
    /\ tThinking.artifacts[2].step_id = Some(1)
    /\ tThinking.links = <<tThinking.artifacts[2]>>

--------------------------------------------------------------------------
(* C30                                                                     *)

ThinkingSteps == { i \in 1..Len(tThinking.steps) : tThinking.steps[i].type = "thinking" }

TopLevel(i) == tThinking.steps[i].content.depth = 0

\* the four labelled perspective lines and the seven labelled analysis-point
\* lines
PerspectiveBlock ==
    "**Logical perspective**: Considering this from a logical perspective viewpoint...\n"
        \o "**Creative perspective**: Considering this from a creative perspective viewpoint...\n"
        \o "**Critical perspective**: Considering this from a critical perspective viewpoint...\n"
        \o "**Practical perspective**: Considering this from a practical perspective viewpoint...\n"

AnalysisBlock ==
    "**Multiple perspectives**: Analyzing multiple perspectives in depth...\n"
        \o "**Potential implications**: Analyzing potential implications in depth...\n"
        \o "**Alternative approaches**: Analyzing alternative approaches in depth...\n"
        \o "**Edge cases**: Analyzing edge cases in depth...\n"
        \o "**Confidence assessment**: Analyzing confidence assessment in depth...\n"
        \o "**Potential challenges**: Analyzing potential challenges in depth...\n"
        \o "**Success criteria**: Analyzing success criteria in depth...\n"

DeepSentence ==
    "\n\nDeep Analysis: I'll analyze this further by considering multiple perspectives and potential implications."

SuperDeepSentence ==
    "\n\nSuper Deep Analysis: I'll perform an extensive analysis by considering multiple perspectives, potential implications, alternative approaches, and edge cases. I'll also evaluate the confidence level of my reasoning."

DeepAnnouncement ==
    "Deep Thinking Mode activated. I'll provide more detailed reasoning and analysis."

SuperDeepAnnouncement ==
    "Super Deep Thinking Mode activated. I'll provide extremely detailed reasoning, analysis, and alternative approaches."

ModeActivated(i) ==
    \/ StartsWith(tThinking.steps[i].content.content, DeepAnnouncement)
    \/ StartsWith(tThinking.steps[i].content.content, SuperDeepAnnouncement)

==========================================================================
